---- MODULE Spec2Model ----
(***************************************************************************)
(* Verification model of the mutag-calib repository: the datacard scripts  *)
(* (create_datacards.py, datacard_mutag.py), the fit drivers               *)
(* (fit_diagnostics.py, run_fit_results.py), the prescale tools            *)
(* (analyze_prescales.py, scale_factors.py, weights.py), the processors    *)
(* (mutag_processor.py, pt_reweighting.py) and the delta-R matching.       *)
(*                                                                         *)
(* Every program is a small state machine of its own; a specification      *)
(* SpecXxx runs one program and keeps the variables of the others idle.    *)
(***************************************************************************)
EXTENDS Integers, Sequences, FiniteSets, TLC

VARIABLES
    \* create_datacards.get_passfail_ratio
    datacards,          \* datacards[cat][tau21]: shape name -> template bins
    sumw_percat,        \* sumw_percat[cat][tau21][flavor]
    passfail_ratio,     \* passfail_ratio[parent][tau21][flavor]
    pcRatio,            \* "start", "summed", "done", "KeyError"
    \* datacard_mutag.DatacardMutag.rate_parameters_section
    mc_processes,       \* the MC processes of the datacard, in order
    rp_passfail_ratio,  \* the argument passfail_ratio: None or a dictionary
    content,            \* the section returned: a sequence of lines
    pcRate,             \* "start", "done", "formula", "KeyError"
    \* run_fit_results.py driving fit_diagnostics.py and extract_fit_results.py
    base_dir,           \* the tree under args.base_dir: entries [path, isdir]
    calls,              \* the subprocess.run calls of main so far: [script, cwd]
    files,              \* files[d]: the files present in cut directory d
    combine_runs,       \* combine_runs[d]: exit codes of the combine runs in d
    status_json,        \* status_json[d]: 'returncode' of fit_status.json, <<>> if absent
    fit_exits,          \* fit_exits[d]: exit codes of the fit_diagnostics.py runs in d
    extract_exits,      \* extract_exits[d]: exit codes of the extract_fit_results.py runs
    idx,                \* the cut directory the loop of main is at
    pcMain,             \* run_fit_results: "loop", "fit", "extract", "collect", "done", "aborted"
    pcFit,              \* fit_diagnostics: "off", "check", "run", "status", "print", "exited"
    summary_rows,       \* main.summary_rows: the cut directories whose csv was read
    summary_csv,        \* the global summary: <<>> if not written, <<rows>> if written
    \* create_datacards.py main: the dump loop and the report
    dump_fails,         \* the (year, category, cut) whose DatacardMutag.dump raises
    dyear,              \* index of the year of the outer loop
    ditem,              \* index of the (category, cut) of the dump loop
    kwargs,             \* main.kwargs, as left by the last iteration
    successful_categories,
    failed_categories,
    report_total,       \* <<ncat>> once print_report has printed it
    pcDump,             \* "dump", "combine", "report", "done", "NameError"
    \* analyze_prescales.py main
    config_exists,      \* whether the --config file exists
    json_exists,        \* the prescale JSON files that exist
    json_bad,           \* the prescale JSON files whose parsing raises
    an_i,               \* index of the trigger entry the loop is at
    processed_files,
    all_prescale_data,
    an_warnings,        \* the files reported as not found or as in error
    an_saved,           \* whether save_detailed_results has written the output
    pcAn,               \* "start", "loop", "after", "returned"
    \* scale_factors.sf_trigger_prescale and its wrapper of weights.py
    ps_events,          \* events[e].HLT[trigger], events[e].run
    ps_isMC,            \* the MC flag of the chunk
    ps_files,           \* the triggers whose prescale file exists
    ps_via,             \* "direct" or "wrapper": how the function was called
    ps_result,          \* [raised, weights]
    pcPs,               \* "start", "returned", "raised"
    \* the processors: mutagAnalysisProcessor and ptReweightProcessor
    cfg_options,        \* the keys of cfg.workflow_options
    cfg_variables,      \* the keys of cfg.variables
    cfg_shapes,         \* cfg.available_shape_variations: sample -> list
    proc_kind,          \* "none", "mutag", "ptreweight"
    proc_state,         \* "unbuilt", "built", "raised"
    proc_error,         \* <<>> or <<what the message of __init__ names>>
    chunk_isMC,         \* self._isMC of the chunk at hand
    chunk_state,        \* "none", "loaded", "raised", "processed"
    chunk_error,        \* <<>> or <<the set the message gives as missing>>
    nchunks,            \* the chunks processed so far
    \* run_deltar_matching on one event
    dm_dr,              \* dm_dr[m][g]: delta-R of obj1 m and obj2 g
    dm_nobj2,           \* the number of obj2 elements of the event
    dm_radius,          \* the radius of the call, <<>> before it
    dm_out,             \* the matched obj2 of every obj1
    pcDm,               \* "start", "muons", "sv", "direct"
    \* mutagAnalysisProcessor.ptetatau21_reweighting
    rw_events,          \* rw_events[e]: the FatJetGood of event e
    weight_3d,          \* self.weight_3d
    pcRw,               \* "start", "done"
    \* create_datacards.get_1d_histogram
    h2d_dict,           \* the 2D histograms: (process, dataset) -> [x bin][tau21 bin, flow included]
    tau21_cut,          \* the cut, in hundredths
    h1d_dict,           \* the returned histograms, <<>> before the return and after a raise
    h1_error,           \* <<>> or <<the exception raised>>
    pcH1,               \* "start", "returned", "raised"
    \* sv.py: the mass-like variables of the secondary vertices of a jet
    sv_masses,          \* the masses of the secondary vertices matched to the jet
    sv_proj,            \* the mass of the projection of their summed momentum on the jet
    sv_result,          \* <<>> or <<[mass, log]>>, what the function returned
    pcSv,               \* "start", "sv1mass", "projmass", "sumcorrmass"
    \* compute_3d_reweighting.py: __main__ and pt_reweighting
    ow_existing,        \* the output files that exist before the run
    ow_overwrite,       \* the --overwrite flag
    ow_disk,            \* the output files: <<>> (absent) or <<content>>
    ow_k,               \* the (histname, year) at hand, as an index of OutFiles
    pcOw,               \* "check", "open", "write", "raised", "done"
    \* jec/rename_jecs.py: main and rename_files_with_data
    rn_folder,          \* what folder_path is: "missing", "file" or "dir"
    rn_initial,         \* the entries of the folder before the call
    rn_entries,         \* the entries now: name -> <<>>, <<"dir">> or <<"file", content>>
    rn_dry_run,         \* the dry_run argument
    rn_files,           \* the files listed at line 36 and not yet visited
    renamed_count,      \* the counter of line 33
    rn_return,          \* <<>> or <<the value returned>>
    pcRn,               \* "start", "loop", "returned"
    \* generate_prescale_yaml.calculate_weighted_average
    prescale_entries,   \* the entries: [weight, lumi_range_size]
    wa_result,          \* <<>> or <<the float returned>>
    pcWa,               \* "start", "returned"
    \* create_datacards.categorize_samples
    cs_cutflow,         \* the cutflow: category -> dataset -> the sample names (dictionary keys)
    cs_samples,         \* <<>> or <<the dictionary returned>>
    pcCs,               \* "start", "returned"
    \* create_datacards.add_Madgraph_systematic
    ms_hist,            \* histogram_logsumSVmass_tau21: sample -> dataset -> histogram
    ms_initial,         \* the argument as it was at the call
    ms_done,            \* the flavors the loop of line 221 has processed
    pcMs,               \* "loop", "returned", "ValueError"
    \* configs/fatjet_base/custom/jets.jet_correction_correctionlib
    jc_jets,            \* events[Jet] of the one event of the chunk: a list of jets
    jc_genjets,         \* events[genJet]: the pt of the generator jets of the event
    jc_JERversion,      \* <<>> for None, else <<the version>>
    jc_result,          \* <<>>, or <<[jets, seed_dict]>> once the function has returned
    pcJc                \* "start", "returned"

varsRatio == <<datacards, sumw_percat, passfail_ratio, pcRatio>>
varsRate == <<mc_processes, rp_passfail_ratio, content, pcRate>>

varsFit == <<base_dir, calls, files, combine_runs, status_json, fit_exits, extract_exits, idx,
             pcMain, pcFit, summary_rows, summary_csv>>

varsDump == <<dump_fails, dyear, ditem, kwargs, successful_categories,
              failed_categories, report_total, pcDump>>
varsAn == <<config_exists, json_exists, json_bad, an_i, processed_files,
            all_prescale_data, an_warnings, an_saved, pcAn>>

varsPs == <<ps_events, ps_isMC, ps_files, ps_via, ps_result, pcPs>>

varsCfg == <<cfg_options, cfg_variables, cfg_shapes, proc_kind, proc_state, proc_error,
             chunk_isMC, chunk_state, chunk_error, nchunks>>
varsDm == <<dm_dr, dm_nobj2, dm_radius, dm_out, pcDm>>
varsRw == <<rw_events, weight_3d, pcRw>>

varsH1 == <<h2d_dict, tau21_cut, h1d_dict, h1_error, pcH1>>

varsSv == <<sv_masses, sv_proj, sv_result, pcSv>>

varsOw == <<ow_existing, ow_overwrite, ow_disk, ow_k, pcOw>>

varsRn == <<rn_folder, rn_initial, rn_entries, rn_dry_run, rn_files, renamed_count,
              rn_return, pcRn>>

varsWa == <<prescale_entries, wa_result, pcWa>>

varsCs == <<cs_cutflow, cs_samples, pcCs>>

varsMs == <<ms_hist, ms_initial, ms_done, pcMs>>

varsJc == <<jc_jets, jc_genjets, jc_JERversion, jc_result, pcJc>>

vars == <<varsRatio, varsRate, varsFit, varsDump, varsAn, varsPs, varsCfg, varsDm,
        varsRw, varsH1, varsSv, varsOw, varsRn, varsWa, varsCs, varsMs, varsJc>>

\* What each program leaves alone: the variables of the other programs.
othersRatio == <<varsRate, varsFit, varsDump, varsAn, varsPs, varsCfg, varsDm, varsRw,
                 varsH1, varsSv, varsOw, varsRn, varsWa, varsCs, varsMs, varsJc>>
othersRate == <<varsRatio, varsFit, varsDump, varsAn, varsPs, varsCfg, varsDm, varsRw,
                varsH1, varsSv, varsOw, varsRn, varsWa, varsCs, varsMs, varsJc>>
othersFit == <<varsRatio, varsRate, varsDump, varsAn, varsPs, varsCfg, varsDm, varsRw,
               varsH1, varsSv, varsOw, varsRn, varsWa, varsCs, varsMs, varsJc>>
othersDump == <<varsRatio, varsRate, varsFit, varsAn, varsPs, varsCfg, varsDm, varsRw,
                varsH1, varsSv, varsOw, varsRn, varsWa, varsCs, varsMs, varsJc>>
othersAn == <<varsRatio, varsRate, varsFit, varsDump, varsPs, varsCfg, varsDm, varsRw,
              varsH1, varsSv, varsOw, varsRn, varsWa, varsCs, varsMs, varsJc>>
othersPs == <<varsRatio, varsRate, varsFit, varsDump, varsAn, varsCfg, varsDm, varsRw,
              varsH1, varsSv, varsOw, varsRn, varsWa, varsCs, varsMs, varsJc>>
othersCfg == <<varsRatio, varsRate, varsFit, varsDump, varsAn, varsPs, varsDm, varsRw,
               varsH1, varsSv, varsOw, varsRn, varsWa, varsCs, varsMs, varsJc>>
othersDm == <<varsRatio, varsRate, varsFit, varsDump, varsAn, varsPs, varsCfg, varsRw,
              varsH1, varsSv, varsOw, varsRn, varsWa, varsCs, varsMs, varsJc>>
othersRw == <<varsRatio, varsRate, varsFit, varsDump, varsAn, varsPs, varsCfg, varsDm,
              varsH1, varsSv, varsOw, varsRn, varsWa, varsCs, varsMs, varsJc>>
othersH1 == <<varsRatio, varsRate, varsFit, varsDump, varsAn, varsPs, varsCfg, varsDm,
              varsRw, varsSv, varsOw, varsRn, varsWa, varsCs, varsMs, varsJc>>
othersSv == <<varsRatio, varsRate, varsFit, varsDump, varsAn, varsPs, varsCfg, varsDm,
              varsRw, varsH1, varsOw, varsRn, varsWa, varsCs, varsMs, varsJc>>
othersOw == <<varsRatio, varsRate, varsFit, varsDump, varsAn, varsPs, varsCfg, varsDm,
              varsRw, varsH1, varsSv, varsRn, varsWa, varsCs, varsMs, varsJc>>
othersRn == <<varsRatio, varsRate, varsFit, varsDump, varsAn, varsPs, varsCfg, varsDm,
              varsRw, varsH1, varsSv, varsOw, varsWa, varsCs, varsMs, varsJc>>
othersWa == <<varsRatio, varsRate, varsFit, varsDump, varsAn, varsPs, varsCfg, varsDm,
              varsRw, varsH1, varsSv, varsOw, varsRn, varsCs, varsMs, varsJc>>
othersCs == <<varsRatio, varsRate, varsFit, varsDump, varsAn, varsPs, varsCfg, varsDm,
              varsRw, varsH1, varsSv, varsOw, varsRn, varsWa, varsMs, varsJc>>
othersMs == <<varsRatio, varsRate, varsFit, varsDump, varsAn, varsPs, varsCfg, varsDm,
              varsRw, varsH1, varsSv, varsOw, varsRn, varsWa, varsCs, varsJc>>
othersJc == <<varsRatio, varsRate, varsFit, varsDump, varsAn, varsPs, varsCfg, varsDm,
              varsRw, varsH1, varsSv, varsOw, varsRn, varsWa, varsCs, varsMs>>

\* A value that stands for "not assigned yet" (Python: the name is unbound).
None == "None"

(***************************************************************************)
(* Sequence helpers                                                        *)
(***************************************************************************)
RECURSIVE SeqSum(_)
SeqSum(s) == IF s = <<>> THEN 0 ELSE Head(s) + SeqSum(Tail(s))

Last(s) == s[Len(s)]
ButLast(s) == SubSeq(s, 1, Len(s) - 1)

(***************************************************************************)
(* create_datacards.py: get_passfail_ratio                                 *)
(*                                                                         *)
(* A category name is modelled by its list of "-"-separated tokens, a      *)
(* shape name by its list of "_"-separated parts (process, year, suffix).  *)
(***************************************************************************)
NBins == 2
MaxW == 2

Year == "2022_preEE"
Tau21Cuts == {20, 25}          \* two of the cuts 0.2, 0.25 (x100)
Flavors == {"b", "c"}
FreeParent == <<"msd", "Pt300">>
FixedParent == <<"msd", "Pt350">>
Parents == {FreeParent, FixedParent}
Regions == {"pass", "fail"}

CatName(parent, region) == Append(parent, region)
AllCats == {CatName(p, r) : p \in Parents, r \in Regions}

\* shape names of create_shape_histogram_dict(is_data=False)
ShapeName(flavor) == <<flavor, Year, "nominal">>
ShapeNames == {ShapeName(f) : f \in Flavors}

\* A template with NBins bins whose last bin holds w.
Template(w) == [i \in 1..NBins |-> IF i = NBins THEN w ELSE i - 1]

\* The templates of the second parent category: fixed, and different for
\* every (region, cut, flavor).
FixedWeight(region, tau21, flavor) ==
    1 + (IF region = "pass" THEN 0 ELSE 1)
      + (IF tau21 = 20 THEN 0 ELSE 2)
      + (IF flavor = "b" THEN 0 ELSE 4)

\* hist.values().sum()
ValuesSum(h) == SeqSum(h)

\* process_name.split("_nominal")[0]
SplitNominal(process_name) ==
    IF Last(process_name) = "nominal" THEN ButLast(process_name) ELSE process_name

\* '-'.join(cat.split("-")[:-1])
ParentOf(cat) == ButLast(cat)

\* numpy float division: a zero denominator gives inf/nan, never an exception.
\* The quotient is kept as the pair <<numerator, denominator>>.
Div(a, b) == <<a, b>>

\* lines 185-192: the first loop
SumwPerCat(dc) ==
    [cat \in DOMAIN dc |->
        [tau21 \in DOMAIN dc[cat] |->
            [key \in {SplitNominal(n) : n \in DOMAIN dc[cat][tau21]} |->
                ValuesSum(dc[cat][tau21][
                    CHOOSE n \in DOMAIN dc[cat][tau21] : SplitNominal(n) = key])]]]

\* line 195
ParentCategories(dc) == {ParentOf(cat) : cat \in DOMAIN dc}

\* line 202 with a swapped quotient
RatioEntrySwapped(sumw, parent_cat, tau21, flavor) ==
    Div(sumw[CatName(parent_cat, "fail")][tau21][flavor],
        sumw[CatName(parent_cat, "pass")][tau21][flavor])

\* lines 199-202
RatioEntry(sumw, parent_cat, tau21, flavor) ==
    Div(sumw[CatName(parent_cat, "pass")][tau21][flavor],
        sumw[CatName(parent_cat, "fail")][tau21][flavor])

\* The look-ups of lines 198-202 that raise KeyError.
RatioKeyError(dc, sumw) ==
    \E parent_cat \in ParentCategories(dc) :
        \/ CatName(parent_cat, "pass") \notin DOMAIN dc
        \/ \E tau21 \in DOMAIN dc[CatName(parent_cat, "pass")] :
              \/ CatName(parent_cat, "fail") \notin DOMAIN sumw
              \/ tau21 \notin DOMAIN sumw[CatName(parent_cat, "fail")]
              \/ \E flavor \in DOMAIN sumw[CatName(parent_cat, "pass")][tau21] :
                    flavor \notin DOMAIN sumw[CatName(parent_cat, "fail")][tau21]

InitRatio ==
    /\ \E cats \in {AllCats, AllCats \ {CatName(FixedParent, "fail")}} :
       \E w \in [Regions \X Tau21Cuts \X Flavors -> 0..MaxW] :
          datacards =
            [cat \in cats |->
              [tau21 \in Tau21Cuts |->
                [n \in ShapeNames |->
                   IF ParentOf(cat) = FreeParent
                   THEN Template(w[<<Last(cat), tau21, n[1]>>])
                   ELSE Template(FixedWeight(Last(cat), tau21, n[1]))]]]
    /\ sumw_percat = None
    /\ passfail_ratio = None
    /\ pcRatio = "start"

IdleRatio ==
    /\ datacards = None
    /\ sumw_percat = None
    /\ passfail_ratio = None
    /\ pcRatio = "idle"

\* lines 183-192
ComputeSumw ==
    /\ pcRatio = "start"
    /\ sumw_percat' = SumwPerCat(datacards)
    /\ pcRatio' = "summed"
    /\ UNCHANGED <<datacards, passfail_ratio>>
    /\ UNCHANGED othersRatio

\* lines 194-204
ComputeRatio ==
    /\ pcRatio = "summed"
    /\ IF RatioKeyError(datacards, sumw_percat)
       THEN /\ pcRatio' = "KeyError"
            /\ UNCHANGED passfail_ratio
       ELSE /\ passfail_ratio' =
                 [parent_cat \in ParentCategories(datacards) |->
                   [tau21 \in DOMAIN datacards[CatName(parent_cat, "pass")] |->
                     [flavor \in DOMAIN sumw_percat[CatName(parent_cat, "pass")][tau21] |->
                        RatioEntry(sumw_percat, parent_cat, tau21, flavor)]]]
            /\ pcRatio' = "done"
    /\ UNCHANGED <<datacards, sumw_percat>>
    /\ UNCHANGED othersRatio

NextRatio ==
    \/ ComputeSumw
    \/ ComputeRatio

\* The sum of the bin contents, written out for the statement of C1.
RECURSIVE BinTotal(_, _)
BinTotal(h, n) == IF n = 0 THEN 0 ELSE h[n] + BinTotal(h, n - 1)

\* C1: once get_passfail_ratio has returned, ratio[P][t][f] is the quotient of
\* the bin total of the template of f in 'P-pass' at cut t and the bin total of
\* the template of f in 'P-fail' at the same cut, for every parent category,
\* cut and flavor.
C1_PassFailRatio ==
    pcRatio = "done" =>
        \A P \in Parents, t \in Tau21Cuts, f \in Flavors :
            LET hp == datacards[CatName(P, "pass")][t][ShapeName(f)]
                hf == datacards[CatName(P, "fail")][t][ShapeName(f)]
            IN  passfail_ratio[P][t][<<f, Year>>]
                    = <<BinTotal(hp, Len(hp)), BinTotal(hf, Len(hf))>>

\* C1 witness: a returned ratio 2/1 of the free category whose neighbours
\* (other cut, other flavor) hold different yields.
C1_Witness ==
    /\ pcRatio = "done"
    /\ passfail_ratio[FreeParent][20][<<"b", Year>>] = <<2, 1>>
    /\ passfail_ratio[FreeParent][25][<<"b", Year>>] = <<1, 2>>
    /\ passfail_ratio[FreeParent][20][<<"c", Year>>] = <<0, 1>>

(***************************************************************************)
(* datacard_mutag.py: DatacardMutag.get_passfail_formula and               *)
(* rate_parameters_section                                                 *)
(*                                                                         *)
(* A line is the record of its whitespace-separated fields (ljust only     *)
(* pads); ratios and scale factors are naturals.                           *)
(***************************************************************************)
ProcessNames == <<"light", "c", "b">>          \* define_processes, in order
RatioValues == {0, 2, 1234567}                 \* ratios a dictionary may hold
RateParamRange == 0..5                         \* the range "[0,5]" of line 55

RECURSIVE Pow10(_)
Pow10(k) == IF k = 0 THEN 1 ELSE 10 * Pow10(k - 1)

RECURSIVE Digits(_)
Digits(n) == IF n < 10 THEN 1 ELSE 1 + Digits(n \div 10)

SigDigits == 6

\* f"{ratio:.6g}": the number the string denotes (six significant digits,
\* ties to even).
Format6g(ratio) ==
    IF Digits(ratio) <= SigDigits THEN ratio
    ELSE LET p == Pow10(Digits(ratio) - SigDigits)
             q == ratio \div p
             r == ratio % p
         IN  (IF 2 * r > p \/ (2 * r = p /\ q % 2 = 1) THEN q + 1 ELSE q) * p

\* The argument passfail_ratio: None, or a dictionary.
NoneDict == [none |-> TRUE]
SomeDict(d) == [none |-> FALSE, dict |-> d]

\* key = f"{process.name}_{year}"
ProcessKey(process, year) == <<process.name, year>>

\* get_passfail_formula, lines 27-35: a KeyError, or the formula
\* "(((1-@0)*R)+1)" with R the formatted ratio.
get_passfail_formula(process, year, ratio_dict) ==
    IF ratio_dict.none \/ ProcessKey(process, year) \notin DOMAIN ratio_dict.dict
    THEN [raised |-> "KeyError"]
    ELSE [raised |-> None,
          formula |-> [text |-> "(((1-@0)*R)+1)",
                       R |-> Format6g(ratio_dict.dict[ProcessKey(process, year)])]]

\* What the emitted text "(((1-@0)*R)+1)" evaluates to with @0 = sf.
FormulaValue(formula, sf) == (((1 - sf) * formula.R) + 1)

\* lines 48-51
RateParamName(process) == IF process.is_signal THEN "r" ELSE "SF_" \o process.name

\* lines 52-63: the line of one (process, year)
RateParamLine(process, year, ratio_dict) ==
    IF ratio_dict.none
    THEN [name |-> RateParamName(process), kind |-> "rateParam", bin |-> "*",
          process |-> ProcessKey(process, year), init |-> 1, range |-> "[0,5]",
          formula |-> None, arg |-> None]
    ELSE [name |-> RateParamName(process), kind |-> "rateParam", bin |-> "*",
          process |-> ProcessKey(process, year), init |-> None, range |-> None,
          formula |-> get_passfail_formula(process, year, ratio_dict).formula,
          arg |-> RateParamName(process)]

\* The (process, year) pairs of the two loops of lines 45-46, in order.
RECURSIVE YearPairs(_, _)
YearPairs(process, years) ==
    IF years = <<>> THEN <<>>
    ELSE <<<<process, Head(years)>>>> \o YearPairs(process, Tail(years))

RECURSIVE ProcessYearPairs(_)
ProcessYearPairs(procs) ==
    IF procs = <<>> THEN <<>>
    ELSE YearPairs(Head(procs), Head(procs).years) \o ProcessYearPairs(Tail(procs))

\* lines 44-65 over the pairs left: [raised, content]
RECURSIVE RateSection(_, _, _)
RateSection(pairs, ratio_dict, acc) ==
    IF pairs = <<>> THEN [raised |-> None, content |-> acc]
    ELSE LET process == Head(pairs)[1]
             year == Head(pairs)[2]
         IN  IF ~process.has_rateParam
             THEN RateSection(Tail(pairs), ratio_dict, acc)
             ELSE IF ~ratio_dict.none
                     /\ get_passfail_formula(process, year, ratio_dict).raised # None
                  THEN [raised |-> "KeyError", content |-> acc]
                  ELSE RateSection(Tail(pairs), ratio_dict,
                                   Append(acc, RateParamLine(process, year, ratio_dict)))

RatioDicts ==
    {SomeDict(d) : d \in UNION {[keys -> RatioValues] :
             keys \in SUBSET {<<ProcessNames[i], Year>> : i \in 1..Len(ProcessNames)}}}

InitRate ==
    /\ \E rp \in [1..Len(ProcessNames) -> BOOLEAN] :
          mc_processes =
            [i \in 1..Len(ProcessNames) |->
               [name |-> ProcessNames[i], years |-> <<Year>>,
                is_signal |-> (ProcessNames[i] = "b"), has_rateParam |-> rp[i]]]
    /\ rp_passfail_ratio \in {NoneDict} \cup RatioDicts
    /\ content = None
    /\ pcRate = "start"

IdleRate ==
    /\ mc_processes = None
    /\ rp_passfail_ratio = NoneDict
    /\ content = None
    /\ pcRate = "idle"

\* datacard.rate_parameters_section(passfail_ratio), lines 38-65
RateParametersSection ==
    /\ pcRate = "start"
    /\ LET res == RateSection(ProcessYearPairs(mc_processes), rp_passfail_ratio, <<>>)
       IN  IF res.raised # None
           THEN pcRate' = "KeyError" /\ UNCHANGED content
           ELSE pcRate' = "done" /\ content' = res.content
    /\ UNCHANGED <<mc_processes, rp_passfail_ratio>>
    /\ UNCHANGED othersRate

\* a direct call datacard.get_passfail_formula(process, year, passfail_ratio)
GetPassfailFormula ==
    /\ pcRate = "start"
    /\ \E i \in 1..Len(mc_processes) :
          LET res == get_passfail_formula(mc_processes[i], Year, rp_passfail_ratio)
          IN  IF res.raised # None
              THEN pcRate' = "KeyError" /\ UNCHANGED content
              ELSE pcRate' = "formula" /\ content' = <<res.formula>>
    /\ UNCHANGED <<mc_processes, rp_passfail_ratio>>
    /\ UNCHANGED othersRate

NextRate ==
    \/ RateParametersSection
    \/ GetPassfailFormula

\* C2: rate_parameters_section emits one rateParam line per (process, year)
\* with has_rateParam, named 'r' or 'SF_<process>', ending in '1 [0,5]' without
\* a ratio and in '(((1-@0)*R)+1) <name>' with one; and the formula scales the
\* fail-region yield by SF * (1 + (1 - SF) * R), R being the ratio printed in
\* the line.
C2_FailYieldScaling ==
    (pcRate = "done" /\ ~rp_passfail_ratio.none) =>
        \A i \in 1..Len(content) : \A sf \in RateParamRange :
            FormulaValue(content[i].formula, sf)
                = sf * (1 + (1 - sf) * content[i].formula.R)

\* The part of C2 about the lines themselves.
C2_Lines ==
    pcRate = "done" =>
        LET withParam == {i \in 1..Len(mc_processes) : mc_processes[i].has_rateParam}
        IN  /\ Len(content) = Cardinality(withParam)
            /\ \A i \in withParam :
                 \E k \in 1..Len(content) :
                    /\ content[k].process = <<mc_processes[i].name, Year>>
                    /\ content[k].kind = "rateParam" /\ content[k].bin = "*"
                    /\ content[k].name = (IF mc_processes[i].name = "b" THEN "r"
                                          ELSE "SF_" \o mc_processes[i].name)
                    /\ IF rp_passfail_ratio.none
                       THEN content[k].init = 1 /\ content[k].range = "[0,5]"
                       ELSE /\ content[k].formula.text = "(((1-@0)*R)+1)"
                            /\ content[k].arg = content[k].name

(***************************************************************************)
(* run_fit_results.py: main, running fit_diagnostics.py and then           *)
(* extract_fit_results.py in every cut directory.                          *)
(*                                                                         *)
(* The cut directories are numbered in the order the loops of main visit   *)
(* them: directory d is VisitOrder(base_dir)[d].  What a subprocess leaves *)
(* behind is its exit code and the files of its directory.                 *)
(***************************************************************************)
NDirs == 2
CutDirs == 1..NDirs

Cat300 == "msd-80to170_Pt-300to350_particleNet_XbbVsQCD-HHbbtt"
Cat350 == "msd-80to170_Pt-350to425_particleNet_XbbVsQCD-HHbbtt"
Cat425 == "msd-80to170_Pt-425toInf_particleNet_XbbVsQCD-HHbbtt"
OtherCat == "msd-40toInf_Pt-300toInf_particleNet_XbbVsQCD-HHbbtt"

\* lines 8-12
ALLOWED_CATEGORIES == {Cat300, Cat350, Cat425}

\* The names found under the base directory, in the order of Python's
\* comparison of str (by code point: digits, upper case, lower case).
NameOrder == <<"2022_postEE", "2022_preEE", "README.md", OtherCat, Cat300, Cat350,
               Cat425, "notes.txt", "tau21_0p20", "tau21_0p25">>

\* The position of a name in NameOrder: a < b in Python iff Rank(a) < Rank(b).
Rank(name) == CHOOSE k \in 1..Len(NameOrder) : NameOrder[k] = name

\* os.listdir(path): the names of the entries directly under path
listdir(tree, path) ==
    {e.path[Len(path) + 1] :
        e \in {f \in tree : /\ Len(f.path) > Len(path)
                            /\ SubSeq(f.path, 1, Len(path)) = path}}

\* os.path.isdir(path)
isdir(tree, path) ==
    \E e \in tree :
        /\ Len(e.path) >= Len(path)
        /\ SubSeq(e.path, 1, Len(path)) = path
        /\ Len(e.path) = Len(path) => e.isdir

\* the names of a listing in the opposite order: one of the orders
\* os.listdir may give them in
RECURSIVE descending(_)
descending(names) ==
    IF names = {} THEN <<>>
    ELSE LET last == CHOOSE n \in names : \A m \in names : Rank(m) <= Rank(n)
         IN  <<last>> \o descending(names \ {last})

\* sorted(names): the list of the names in ascending order
RECURSIVE sorted(_)
sorted(names) ==
    IF names = {} THEN <<>>
    ELSE LET first == CHOOSE n \in names : \A m \in names : Rank(n) <= Rank(m)
         IN  <<first>> \o sorted(names \ {first})

\* The concatenation of a list of lists.
RECURSIVE Flatten(_)
Flatten(lists) == IF lists = <<>> THEN <<>> ELSE Head(lists) \o Flatten(Tail(lists))

\* lines 40-43: the cut directories of one category, in the order of the loop
CutLoop(tree, year, category) ==
    LET cuts == sorted(listdir(tree, <<year, category>>))
        kept == {k \in 1..Len(cuts) : isdir(tree, <<year, category, cuts[k]>>)}
        Nth(n) == CHOOSE k \in kept : Cardinality({j \in kept : j < k}) = n - 1
    IN  [n \in 1..Cardinality(kept) |-> <<year, category, cuts[Nth(n)]>>]

\* lines 34-38: the loop over the categories of a year
CategoryLoop(tree, year) ==
    LET cats == sorted(listdir(tree, <<year>>))
    IN  Flatten([k \in 1..Len(cats) |->
                    IF cats[k] \notin ALLOWED_CATEGORIES THEN <<>>
                    ELSE CutLoop(tree, year, cats[k])])

\* lines 29-43: the cut directories main visits, in order
VisitOrder(tree) ==
    LET years == sorted(listdir(tree, <<>>))
    IN  Flatten([k \in 1..Len(years) |->
                    IF ~isdir(tree, <<years[k]>>) THEN <<>>
                    ELSE CategoryLoop(tree, years[k])])

\* line 41: cut_path of the d-th iteration
CutPath(d) == VisitOrder(base_dir)[d]

\* The cut directories a base directory may hold.
CandidateDirs == {<<"2022_preEE", Cat300, "tau21_0p20">>,
                  <<"2022_preEE", Cat300, "tau21_0p25">>,
                  <<"2022_preEE", Cat425, "tau21_0p20">>,
                  <<"2022_postEE", Cat350, "tau21_0p20">>,
                  <<"2022_postEE", Cat350, "tau21_0p25">>}

\* What every base directory holds beside them: a file, a cut directory of a
\* category that is not allowed, and a file in a category directory.
OtherEntries == {[path |-> <<"README.md">>, isdir |-> FALSE],
                 [path |-> <<"2022_preEE", OtherCat, "tau21_0p20">>, isdir |-> TRUE],
                 [path |-> <<"2022_postEE", Cat350, "notes.txt">>, isdir |-> FALSE]}

\* The base directories with NDirs cut directories of allowed categories.
BaseDirs ==
    {OtherEntries \cup {[path |-> q, isdir |-> TRUE] : q \in S} :
        S \in {T \in SUBSET CandidateDirs : Cardinality(T) = NDirs}}
ExitCodes == {0, 1, 134}        \* exit codes of combine

\* The files a cut directory may hold before the run.
InputFiles == {"workspace.root", "fitDiagnostics.root", "fitResults.csv"}

InitFit ==
    /\ base_dir \in BaseDirs
    /\ calls = <<>>
    /\ files \in [CutDirs -> SUBSET InputFiles]
    /\ combine_runs = [d \in CutDirs |-> <<>>]
    /\ status_json = [d \in CutDirs |-> <<>>]
    /\ fit_exits = [d \in CutDirs |-> <<>>]
    /\ extract_exits = [d \in CutDirs |-> <<>>]
    /\ idx = 1
    /\ pcMain = "loop"
    /\ pcFit = "off"
    /\ summary_rows = <<>>
    /\ summary_csv = <<>>

IdleFit ==
    /\ base_dir = None
    /\ calls = None
    /\ files = None
    /\ combine_runs = None
    /\ status_json = None
    /\ fit_exits = None
    /\ extract_exits = None
    /\ idx = 0
    /\ pcMain = "idle"
    /\ pcFit = "idle"
    /\ summary_rows = None
    /\ summary_csv = None

\* run_fit_results.py lines 40-52: subprocess.run(["python3", RUN_FIT], cwd=cut_path)
StartFit ==
    /\ pcMain = "loop" /\ idx \in CutDirs
    /\ pcMain' = "fit"
    /\ pcFit' = "check"
    /\ UNCHANGED <<files, combine_runs, status_json, fit_exits, extract_exits, idx,
                   summary_rows, summary_csv>>
    /\ calls' = Append(calls, [script |-> "fit_diagnostics.py", cwd |-> CutPath(idx)])
    /\ UNCHANGED base_dir
    /\ UNCHANGED othersFit

\* fit_diagnostics.py lines 8-10: RuntimeError when workspace.root is absent
SanityCheck ==
    /\ pcFit = "check"
    /\ IF "workspace.root" \in files[idx]
       THEN pcFit' = "run" /\ UNCHANGED fit_exits
       ELSE /\ pcFit' = "exited"
            /\ fit_exits' = [fit_exits EXCEPT ![idx] = Append(@, 1)]
    /\ UNCHANGED <<files, combine_runs, status_json, extract_exits, idx, pcMain,
                   summary_rows, summary_csv>>
    /\ UNCHANGED <<base_dir, calls>>
    /\ UNCHANGED othersFit

\* line 49 as it would be with check=True
RunResultChecked(rc) == [raised |-> rc # 0, returncode |-> rc]

\* The exit code fit_diagnostics.py goes on with after subprocess.run(cmd, ...)
\* of line 49 returned rc: no check=True, so every rc is kept.
RunResult(rc) == [raised |-> FALSE, returncode |-> rc]

\* fit_diagnostics.py lines 48-49: the log file is opened and combine is run;
\* combine is found or not (FileNotFoundError), exits with any code, and leaves
\* a fitDiagnostics root file or not (always on success).
RunCombine ==
    /\ pcFit = "run"
    /\ \/ /\ files' = [files EXCEPT ![idx] = @ \cup {"fitDiagnostics.log"}]
          /\ pcFit' = "exited"
          /\ fit_exits' = [fit_exits EXCEPT ![idx] = Append(@, 1)]
          /\ UNCHANGED combine_runs
       \/ \E rc \in ExitCodes : \E root \in BOOLEAN :
          /\ rc = 0 => root
          /\ files' = [files EXCEPT ![idx] =
                         @ \cup {"fitDiagnostics.log"}
                           \cup (IF root THEN {"fitDiagnostics.root"} ELSE {})]
          /\ combine_runs' = [combine_runs EXCEPT ![idx] = Append(@, rc)]
          /\ IF RunResult(rc).raised
             THEN /\ pcFit' = "exited"
                  /\ fit_exits' = [fit_exits EXCEPT ![idx] = Append(@, 1)]
             ELSE /\ pcFit' = "status"
                  /\ UNCHANGED fit_exits
    /\ UNCHANGED <<status_json, extract_exits, idx, pcMain, summary_rows, summary_csv>>
    /\ UNCHANGED <<base_dir, calls>>
    /\ UNCHANGED othersFit

\* The 'returncode' field of the status of lines 52-60.
StatusReturncode(runs) == RunResult(Last(runs)).returncode

\* fit_diagnostics.py lines 52-63: fit_status.json is written
WriteStatus ==
    /\ pcFit = "status"
    /\ status_json' = [status_json EXCEPT ![idx] = <<StatusReturncode(combine_runs[idx])>>]
    /\ files' = [files EXCEPT ![idx] = @ \cup {"fit_status.json"}]
    /\ pcFit' = "print"
    /\ UNCHANGED <<combine_runs, fit_exits, extract_exits, idx, pcMain,
                   summary_rows, summary_csv>>
    /\ UNCHANGED <<base_dir, calls>>
    /\ UNCHANGED othersFit

\* fit_diagnostics.py lines 65-68: a message is printed and the script ends
PrintFitResult ==
    /\ pcFit = "print"
    /\ pcFit' = "exited"
    /\ fit_exits' = [fit_exits EXCEPT ![idx] = Append(@, 0)]
    /\ UNCHANGED <<files, combine_runs, status_json, extract_exits, idx, pcMain,
                   summary_rows, summary_csv>>
    /\ UNCHANGED <<base_dir, calls>>
    /\ UNCHANGED othersFit

\* run_fit_results.py lines 48-52: check=True raises CalledProcessError
AfterFit ==
    /\ pcMain = "fit" /\ pcFit = "exited"
    /\ pcFit' = "off"
    /\ pcMain' = IF Last(fit_exits[idx]) # 0 THEN "aborted" ELSE "extract"
    /\ UNCHANGED <<files, combine_runs, status_json, fit_exits, extract_exits, idx,
                   summary_rows, summary_csv>>
    /\ UNCHANGED <<base_dir, calls>>
    /\ UNCHANGED othersFit

\* run_fit_results.py lines 55-59 running extract_fit_results.py (lines 14-56):
\* it raises unless exactly one fitDiagnostics root file holding fit_s is there.
ExtractResults ==
    /\ pcMain = "extract"
    /\ \E fit_s \in BOOLEAN :
          IF "fitDiagnostics.root" \in files[idx] /\ fit_s
          THEN /\ files' = [files EXCEPT ![idx] = @ \cup {"fitResults.csv"}]
               /\ extract_exits' = [extract_exits EXCEPT ![idx] = Append(@, 0)]
               /\ pcMain' = "collect"
          ELSE /\ extract_exits' = [extract_exits EXCEPT ![idx] = Append(@, 1)]
               /\ pcMain' = "aborted"
               /\ UNCHANGED files
    /\ UNCHANGED <<combine_runs, status_json, fit_exits, idx, pcFit,
                   summary_rows, summary_csv>>
    /\ calls' = Append(calls, [script |-> "extract_fit_results.py",
                               cwd |-> CutPath(idx)])
    /\ UNCHANGED base_dir
    /\ UNCHANGED othersFit

\* run_fit_results.py lines 61-65
CollectRows ==
    /\ pcMain = "collect"
    /\ summary_rows' = IF "fitResults.csv" \in files[idx]
                       THEN Append(summary_rows, CutPath(idx)) ELSE summary_rows
    /\ idx' = idx + 1
    /\ pcMain' = "loop"
    /\ UNCHANGED <<files, combine_runs, status_json, fit_exits, extract_exits, pcFit,
                   summary_csv>>
    /\ UNCHANGED <<base_dir, calls>>
    /\ UNCHANGED othersFit

\* run_fit_results.py lines 67-73
SaveSummary ==
    /\ pcMain = "loop" /\ idx \notin CutDirs
    /\ summary_csv' = IF summary_rows # <<>> THEN <<summary_rows>> ELSE <<>>
    /\ pcMain' = "done"
    /\ UNCHANGED <<files, combine_runs, status_json, fit_exits, extract_exits, idx,
                   pcFit, summary_rows>>
    /\ UNCHANGED <<base_dir, calls>>
    /\ UNCHANGED othersFit

NextFit ==
    \/ StartFit
    \/ SanityCheck
    \/ RunCombine
    \/ WriteStatus
    \/ PrintFitResult
    \/ AfterFit
    \/ ExtractResults
    \/ CollectRows
    \/ SaveSummary

\* C3: a run of fit_diagnostics.py that has invoked combine is about to write
\* fit_status.json, or has written it with the exit code of combine as its
\* 'returncode', zero or not, and then prints and ends with exit code 0
\* (nothing is raised).
C3_StatusRecordsReturncode ==
    \A d \in CutDirs :
        combine_runs[d] # <<>> =>
            /\ Len(combine_runs[d]) = 1
            /\ \/ d = idx /\ pcFit = "status"
               \/ /\ "fit_status.json" \in files[d]
                  /\ status_json[d] = combine_runs[d]
                  /\ \/ d = idx /\ pcFit = "print"
                     \/ fit_exits[d] = <<0>>

\* C3 witness: combine failed with 134 and the script ended normally.
C3_Witness ==
    \E d \in CutDirs :
        /\ combine_runs[d] = <<134>>
        /\ fit_exits[d] = <<0>>
        /\ status_json[d] = <<134>>

\* The cut directories of the allowed categories under a base directory.
C16_CutDirs(tree) ==
    {q \in {SubSeq(e.path, 1, 3) : e \in {f \in tree : Len(f.path) >= 3}} :
        q[2] \in ALLOWED_CATEGORIES /\ isdir(tree, q)}

\* (year, category, cut) of p before that of q, name by name.
C16_Before(p, q) ==
    \/ Rank(p[1]) < Rank(q[1])
    \/ p[1] = q[1] /\ Rank(p[2]) < Rank(q[2])
    \/ p[1] = q[1] /\ p[2] = q[2] /\ Rank(p[3]) < Rank(q[3])

\* The directories of the extractions so far that hold a fitResults.csv, in
\* the order of the calls.
C16_Collected ==
    LET withCsv == {d \in 1..(Len(calls) \div 2) : "fitResults.csv" \in files[d]}
        Nth(n) == CHOOSE d \in withCsv : Cardinality({e \in withCsv : e < d}) = n - 1
    IN  [n \in 1..Cardinality(withCsv) |-> calls[2 * Nth(n)].cwd]

\* C16: run_fit_results.py runs fit_diagnostics.py and then
\* extract_fit_results.py in the cut directories of the allowed categories, in
\* ascending (year, category, cut) order and skipping none, each subprocess
\* having exited with 0 before the next one is started; a non-zero exit ends
\* the script with no later call and no summary; a summary that is written
\* lists, in visiting order, the visited directories holding a fitResults.csv.
C16_SortedVisits ==
    pcMain # "idle" =>
        /\ \A k \in 1..Len(calls) :
              /\ calls[k].cwd \in C16_CutDirs(base_dir)
              /\ calls[k].script = (IF k % 2 = 1 THEN "fit_diagnostics.py"
                                    ELSE "extract_fit_results.py")
              /\ k % 2 = 0 => calls[k].cwd = calls[k - 1].cwd
              /\ (k % 2 = 1 /\ k > 1) => C16_Before(calls[k - 2].cwd, calls[k].cwd)
              /\ \A q \in C16_CutDirs(base_dir) :
                    C16_Before(q, calls[k].cwd) => \E j \in 1..(k - 1) : calls[j].cwd = q
              /\ k < Len(calls) =>
                    (IF k % 2 = 1 THEN fit_exits[(k + 1) \div 2]
                     ELSE extract_exits[(k + 1) \div 2]) = <<0>>
        /\ \A d \in CutDirs :
              /\ (fit_exits[d] # <<>> /\ Last(fit_exits[d]) # 0) =>
                    /\ Len(calls) = 2 * d - 1
                    /\ pcMain \in {"fit", "aborted"}
                    /\ summary_csv = <<>>
              /\ (extract_exits[d] # <<>> /\ Last(extract_exits[d]) # 0) =>
                    /\ Len(calls) = 2 * d
                    /\ pcMain = "aborted"
                    /\ summary_csv = <<>>
        /\ pcMain = "aborted" => summary_csv = <<>>
        /\ pcMain = "done" =>
              /\ {calls[k].cwd : k \in 1..Len(calls)} = C16_CutDirs(base_dir)
              /\ Len(calls) = 2 * Cardinality(C16_CutDirs(base_dir))
              /\ summary_csv = (IF C16_Collected = <<>> THEN <<>> ELSE <<C16_Collected>>)
        /\ summary_csv # <<>> => pcMain = "done"

\* C16 witness: every directory was visited, those of 2022_postEE before those
\* of 2022_preEE, and the summary was written with one entry per directory.
C16_Witness ==
    /\ pcMain = "done"
    /\ Len(calls) = 2 * NDirs
    /\ calls[1].cwd[1] = "2022_postEE"
    /\ calls[Len(calls)].cwd[1] = "2022_preEE"
    /\ summary_csv # <<>>
    /\ Len(summary_csv[1]) = NDirs
    /\ summary_csv[1][1] = calls[1].cwd

(***************************************************************************)
(* create_datacards.py: main, the loop that dumps the datacards (lines     *)
(* 392-418), the combined datacards (420-436) and print_report.            *)
(***************************************************************************)
MaxFailures == 2

DumpYears == <<"2022_preEE", "2022_postEE">>
DumpCats == <<CatName(FreeParent, "pass"), CatName(FreeParent, "fail")>>
Tau21CutList == <<20, 25, 30, 35, 40>>          \* [0.2, 0.25, 0.3, 0.35, 0.4]

\* The (category, cut) pairs of the loops of lines 394-395, in order.
DumpItems ==
    [k \in 1..(Len(DumpCats) * Len(Tau21CutList)) |->
        <<DumpCats[((k - 1) \div Len(Tau21CutList)) + 1],
          Tau21CutList[((k - 1) % Len(Tau21CutList)) + 1]>>]

AllDumps == {<<y, k>> : y \in 1..Len(DumpYears), k \in 1..Len(DumpItems)}

InitDump ==
    /\ dump_fails \in {F \in SUBSET AllDumps : Cardinality(F) <= MaxFailures}
    /\ dyear = 1
    /\ ditem = 1
    /\ kwargs = <<>>
    /\ successful_categories = <<>>
    /\ failed_categories = <<>>
    /\ report_total = <<>>
    /\ pcDump = "dump"

IdleDump ==
    /\ dump_fails = {}
    /\ dyear = 0
    /\ ditem = 0
    /\ kwargs = <<>>
    /\ successful_categories = <<>>
    /\ failed_categories = <<>>
    /\ report_total = <<>>
    /\ pcDump = "idle"

\* lines 407-411 without the elif branch: kwargs is assigned for a "-pass"
\* category only
NextKwargsPassOnly(old, cat, tau21, category_dir) ==
    IF Last(cat) = "pass" THEN <<[directory |-> category_dir, ratio |-> <<>>]>>
    ELSE old

\* lines 407-411: kwargs is assigned for a "-pass" and for a "-fail" category
\* and keeps its value for any other (<<>>: no value yet).
NextKwargs(old, cat, tau21, category_dir) ==
    IF Last(cat) = "pass" THEN <<[directory |-> category_dir, ratio |-> <<>>]>>
    ELSE IF Last(cat) = "fail"
         THEN <<[directory |-> category_dir, ratio |-> <<ParentOf(cat), tau21>>]>>
         ELSE old

\* the try statement of lines 412-418 without its except clause
OnDumpErrorPropagate == "abort"

\* lines 412-418: an exception of dump is caught by the except clause and
\* recorded ("record"); without the clause it would end main ("abort").
OnDumpError == "record"

\* lines 395-418: one iteration of the dump loop
DumpOne ==
    /\ pcDump = "dump"
    /\ LET cat == DumpItems[ditem][1]
           tau21 == DumpItems[ditem][2]
           year == DumpYears[dyear]
           category_dir == <<year, ParentOf(cat), tau21, Last(cat)>>
           kw == NextKwargs(kwargs, cat, tau21, category_dir)
           advance == /\ ditem' = IF ditem = Len(DumpItems) THEN 1 ELSE ditem + 1
                      /\ pcDump' = IF ditem = Len(DumpItems) THEN "combine" ELSE "dump"
       IN  IF kw = <<>>
           THEN /\ pcDump' = "NameError"
                /\ UNCHANGED <<ditem, kwargs, successful_categories, failed_categories>>
           ELSE /\ kwargs' = kw
                /\ IF <<dyear, ditem>> \in dump_fails
                   THEN IF OnDumpError = "record"
                        THEN /\ failed_categories' = Append(failed_categories,
                                   [year |-> year, category |-> cat, error |-> "error"])
                             /\ advance
                             /\ UNCHANGED successful_categories
                        ELSE /\ pcDump' = "aborted"
                             /\ UNCHANGED <<ditem, successful_categories, failed_categories>>
                   ELSE /\ successful_categories' = Append(successful_categories,
                              [year |-> year, category |-> cat, folder |-> kw[1].directory])
                        /\ advance
                        /\ UNCHANGED failed_categories
    /\ UNCHANGED <<dump_fails, dyear, report_total>>
    /\ UNCHANGED othersDump

\* lines 420-436: the combined datacards of the year, then the next year
CombineCards ==
    /\ pcDump = "combine"
    /\ IF dyear = Len(DumpYears)
       THEN pcDump' = "report" /\ UNCHANGED dyear
       ELSE pcDump' = "dump" /\ dyear' = dyear + 1
    /\ UNCHANGED <<dump_fails, ditem, kwargs, successful_categories, failed_categories,
                   report_total>>
    /\ UNCHANGED othersDump

\* print_report, lines 294-305
PrintReport ==
    /\ pcDump = "report"
    /\ report_total' = <<Len(successful_categories) + Len(failed_categories)>>
    /\ pcDump' = "done"
    /\ UNCHANGED <<dump_fails, dyear, ditem, kwargs, successful_categories,
                   failed_categories>>
    /\ UNCHANGED othersDump

NextDump ==
    \/ DumpOne
    \/ CombineCards
    \/ PrintReport

(***************************************************************************)
(* analyze_prescales.py: main                                              *)
(***************************************************************************)
\* The (year, trigger group, trigger, JSON path) entries of the configuration,
\* in the order of the loops of lines 212-224; two triggers share a file.
PrescaleEntries ==
    << [year |-> "2022_preEE", group |-> "BTagMu", trigger |-> "AK8DiJet170", path |-> "ps_A.json"],
       [year |-> "2022_preEE", group |-> "BTagMu", trigger |-> "AK8Jet300", path |-> "ps_B.json"],
       [year |-> "2022_postEE", group |-> "BTagMu", trigger |-> "AK8DiJet170", path |-> "ps_A.json"] >>
PrescalePaths == {PrescaleEntries[i].path : i \in 1..Len(PrescaleEntries)}

InitAn ==
    /\ config_exists \in BOOLEAN
    /\ json_exists \in SUBSET PrescalePaths
    /\ json_bad \in SUBSET PrescalePaths
    /\ an_i = 1
    /\ processed_files = {}
    /\ all_prescale_data = <<>>
    /\ an_warnings = <<>>
    /\ an_saved = FALSE
    /\ pcAn = "start"

IdleAn ==
    /\ config_exists = FALSE
    /\ json_exists = {}
    /\ json_bad = {}
    /\ an_i = 0
    /\ processed_files = {}
    /\ all_prescale_data = <<>>
    /\ an_warnings = <<>>
    /\ an_saved = FALSE
    /\ pcAn = "idle"

\* lines 195-210: a missing configuration file is reported and main returns
LoadConfig ==
    /\ pcAn = "start"
    /\ IF config_exists
       THEN pcAn' = "loop" /\ UNCHANGED an_warnings
       ELSE pcAn' = "returned" /\ an_warnings' = Append(an_warnings, "config")
    /\ UNCHANGED <<config_exists, json_exists, json_bad, an_i, processed_files,
                   all_prescale_data, an_saved>>
    /\ UNCHANGED othersAn

\* lines 253-254: an exception of one file is caught and printed ("print");
\* without the except clause it would end main ("abort").
OnFileError == "print"

\* lines 228-230 raising instead of warning
OnMissingJsonRaise == "abort"

\* lines 228-230: a missing JSON file is skipped with a warning ("skip");
\* a raise there would end main ("abort").
OnMissingJson == "skip"

\* lines 224-254: one trigger entry of the configuration
ProcessEntry ==
    /\ pcAn = "loop"
    /\ LET json_file == PrescaleEntries[an_i].path
           advance == /\ an_i' = an_i + 1
                      /\ pcAn' = IF an_i = Len(PrescaleEntries) THEN "after" ELSE "loop"
           abort == /\ pcAn' = "aborted"
                    /\ UNCHANGED an_i
       IN  IF json_file \notin json_exists
           THEN /\ an_warnings' = Append(an_warnings, json_file)
                /\ IF OnMissingJson = "skip" THEN advance ELSE abort
                /\ UNCHANGED <<processed_files, all_prescale_data>>
           ELSE IF json_file \in processed_files
                THEN /\ advance
                     /\ UNCHANGED <<an_warnings, processed_files, all_prescale_data>>
                ELSE /\ processed_files' = processed_files \cup {json_file}
                     /\ IF json_file \in json_bad
                        THEN /\ an_warnings' = Append(an_warnings, json_file)
                             /\ IF OnFileError = "print" THEN advance ELSE abort
                             /\ UNCHANGED all_prescale_data
                        ELSE /\ all_prescale_data' = Append(all_prescale_data,
                                    [json_file |-> json_file,
                                     year |-> PrescaleEntries[an_i].year,
                                     trigger_name |-> PrescaleEntries[an_i].trigger])
                             /\ advance
                             /\ UNCHANGED an_warnings
    /\ UNCHANGED <<config_exists, json_exists, json_bad, an_saved>>
    /\ UNCHANGED othersAn

\* lines 256-270: nothing collected, or the averages are computed and saved
SaveResults ==
    /\ pcAn = "after"
    /\ an_saved' = (all_prescale_data # <<>>)
    /\ pcAn' = "returned"
    /\ UNCHANGED <<config_exists, json_exists, json_bad, an_i, processed_files,
                   all_prescale_data, an_warnings>>
    /\ UNCHANGED othersAn

NextAn ==
    \/ LoadConfig
    \/ ProcessEntry
    \/ SaveResults

(***************************************************************************)
(* scale_factors.py: sf_trigger_prescale, and weights.py: the wrapper      *)
(* SF_trigger_prescale                                                     *)
(***************************************************************************)
NEvents == 2

\* trigbools, lines 43-48, in the order of the dictionary
Triggers == <<"BTagMu_AK8DiJet170_Mu5", "BTagMu_AK8Jet300_Mu5",
              "BTagMu_AK8Jet170_DoubleMu5", "BTagMu_AK4Jet300_Mu5">>
TriggerSet == {Triggers[i] : i \in 1..Len(Triggers)}

\* pseval["prescaleWeight"].evaluate(run, f"HLT_{trigger}", lumi), lines 59-63:
\* the content of the prescale files, different for every trigger and run.
PrescaleWeight(k, event) == 10 * k + event.run

\* line 64: psweight = ak.where(trigbool, thispsweight, psweight), kept only
\* where no earlier trigger has set a weight
ApplyFirst(trigbool, thispsweight, psweight) ==
    IF trigbool /\ psweight = 1 THEN thispsweight ELSE psweight

\* line 64: psweight = ak.where(trigbool, thispsweight, psweight)
ApplyWhere(trigbool, thispsweight, psweight) ==
    IF trigbool THEN thispsweight ELSE psweight

\* lines 52-64: the loop over the triggers from the k-th on
RECURSIVE PrescaleLoop(_, _, _, _)
PrescaleLoop(k, events, present, psweight) ==
    IF k > Len(Triggers) THEN [raised |-> None, weights |-> psweight]
    ELSE IF Triggers[k] \notin present
         THEN [raised |-> "NotImplementedError", weights |-> <<>>]
         ELSE PrescaleLoop(k + 1, events, present,
                  [e \in 1..Len(events) |->
                      ApplyWhere(events[e].HLT[Triggers[k]],
                                 PrescaleWeight(k, events[e]), psweight[e])])

\* sf_trigger_prescale(events, year, isMC, params), lines 36-66; params is
\* given by the set of triggers whose prescale file exists.
sf_trigger_prescale(events, year, isMC, params) ==
    IF isMC THEN [raised |-> "Exception", weights |-> <<>>]
    ELSE PrescaleLoop(1, events, params, [e \in 1..Len(events) |-> 1])

\* A Python call of sf_trigger_prescale with positional arguments: the four
\* parameters have no default, so any other number of arguments is a TypeError.
CallFunction(args) ==
    IF Len(args) # 4 THEN [raised |-> "TypeError", weights |-> <<>>]
    ELSE sf_trigger_prescale(args[1], args[2], args[3], args[4])

\* weights.py lines 16-17: the arguments the lambda passes on
WrapperArgs(params, metadata, events) == <<events, metadata.year, params>>

InitPs ==
    /\ \E hlt \in [1..NEvents -> [TriggerSet -> BOOLEAN]] :
          ps_events = [e \in 1..NEvents |-> [run |-> e, HLT |-> hlt[e]]]
    /\ ps_isMC \in BOOLEAN
    /\ ps_files \in {TriggerSet} \cup {TriggerSet \ {t} : t \in TriggerSet}
    /\ ps_via = "none"
    /\ ps_result = <<>>
    /\ pcPs = "start"

IdlePs ==
    /\ ps_events = <<>>
    /\ ps_isMC = FALSE
    /\ ps_files = {}
    /\ ps_via = "idle"
    /\ ps_result = <<>>
    /\ pcPs = "idle"

\* sf_trigger_prescale(events, year, isMC, params) called as its signature asks
CallSfTriggerPrescale ==
    /\ pcPs = "start"
    /\ ps_via' = "direct"
    /\ ps_result' = CallFunction(<<ps_events, Year, ps_isMC, ps_files>>)
    /\ pcPs' = IF ps_result'.raised # None THEN "raised" ELSE "returned"
    /\ UNCHANGED <<ps_events, ps_isMC, ps_files>>
    /\ UNCHANGED othersPs

\* the weight "sf_trigger_prescale" evaluated: the lambda of weights.py 14-19
CallWeightWrapper ==
    /\ pcPs = "start"
    /\ ps_via' = "wrapper"
    /\ ps_result' = CallFunction(WrapperArgs(ps_files, [year |-> Year, isMC |-> ps_isMC],
                                             ps_events))
    /\ pcPs' = IF ps_result'.raised # None THEN "raised" ELSE "returned"
    /\ UNCHANGED <<ps_events, ps_isMC, ps_files>>
    /\ UNCHANGED othersPs

NextPs ==
    \/ CallSfTriggerPrescale
    \/ CallWeightWrapper

\* The order of the triggers as C9 gives it.
C9_Order == <<"BTagMu_AK8DiJet170_Mu5", "BTagMu_AK8Jet300_Mu5",
              "BTagMu_AK8Jet170_DoubleMu5", "BTagMu_AK4Jet300_Mu5">>

\* The weight C9 expects for an event: 1 when no trigger fired, else the
\* prescale weight of the last trigger of C9_Order that fired.
C9_Expected(event) ==
    LET fired == {k \in 1..Len(C9_Order) : event.HLT[C9_Order[k]]}
    IN  IF fired = {} THEN 1
        ELSE LET last == CHOOSE k \in fired : \A j \in fired : j <= k
             IN  10 * last + event.run

\* C9: called as its signature asks, sf_trigger_prescale raises for MC; for
\* data whose prescale files are there it returns one weight per event: 1 when
\* none of the four triggers fired, else the prescale weight of the last
\* trigger that fired, in the fixed order.
C9_LastFiredTrigger ==
    (ps_via = "direct") =>
        /\ ps_isMC => (pcPs = "raised" /\ ps_result.raised = "Exception")
        /\ (~ps_isMC /\ ps_files = TriggerSet) =>
              /\ pcPs = "returned"
              /\ Len(ps_result.weights) = Len(ps_events)
              /\ \A e \in 1..Len(ps_events) :
                    ps_result.weights[e] = C9_Expected(ps_events[e])

\* C9 witness: a data event on which the first and the third trigger fired and
\* that got the weight of the third, beside an event without a trigger.
C9_Witness ==
    /\ ps_via = "direct" /\ pcPs = "returned"
    /\ ps_events[1].HLT = [t \in TriggerSet |->
                              t \in {"BTagMu_AK8DiJet170_Mu5", "BTagMu_AK8Jet170_DoubleMu5"}]
    /\ ps_result.weights[1] = 31
    /\ ps_result.weights[2] = 1

\* C10: the registered weight, evaluated on data events of a configured year
\* (every prescale file there), returns the per-event prescale weights
\* without raising.
C10_WrapperReturnsWeights ==
    (ps_via = "wrapper" /\ ~ps_isMC /\ ps_files = TriggerSet) =>
        /\ pcPs = "returned"
        /\ \A e \in 1..Len(ps_events) :
              ps_result.weights[e] = C9_Expected(ps_events[e])

(***************************************************************************)
(* mutag_processor.py and pt_reweighting.py: the construction of the       *)
(* processors and load_metadata_extra                                      *)
(***************************************************************************)
MaxChunks == 2

\* pt_reweighting.py lines 22-35
pt_eta_2d_maps == <<"FatJetGood_pt_eta">>
pt_eta_tau21_3d_maps == <<"FatJetGood_pt_eta_tau21", "FatJetGood_pt_eta_tau21_bintau05">>

\* The histogram names a configuration may define.
HistNames == {"FatJetGood_pt_eta", "FatJetGood_pt_eta_tau21",
              "FatJetGood_pt_eta_tau21_bintau05", "FatJetGood_pt"}

\* The keys workflow_options may hold.
OptionKeys == {"histograms_to_reweigh", "dump_columns_as_arrays_per_chunk"}

\* cfg.samples_metadata[sample]['isMC']
Samples == <<"QCD_MuEnriched", "VJets", "DATA_BTagMu">>
samples_metadata ==
    [smp \in {"QCD_MuEnriched", "VJets", "DATA_BTagMu"} |-> [isMC |-> smp # "DATA_BTagMu"]]

\* The lists of shape variations a sample may be configured with.
VariationLists ==
    { <<"JES_Total_AK8PFPuppi", "JER_AK8PFPuppi">>,
      <<"JER_AK8PFPuppi", "JES_Total_AK8PFPuppi">>,
      <<"JES_Total_AK8PFPuppi">>,
      <<"JES_Total_AK8PFPuppi", "JER_AK8PFPuppi", "JES_FlavorQCD_AK8PFPuppi">> }

\* set(variations)
ToSet(list) == {list[i] : i \in 1..Len(list)}

\* pt_reweighting.py line 43
expected_shape_variations == {"JES_Total_AK8PFPuppi", "JER_AK8PFPuppi"}

\* line 46 accepting every list that holds the expected variations
ShapeOkSuperset(variations) == expected_shape_variations \subseteq ToSet(variations)

\* line 46: set(variations) == expected_shape_variations
ShapeOk(variations) == ToSet(variations) = expected_shape_variations

\* line 47
missing_shape_variations(variations) ==
    {var \in expected_shape_variations : var \notin ToSet(variations)}

\* pt_reweighting.py lines 36-38: the histogram names of the loop that are not
\* keys of the variables, in the order of the loop
MissingHists(variables) ==
    SelectSeq(pt_eta_2d_maps \o pt_eta_tau21_3d_maps, LAMBDA h : h \notin variables)

\* pt_reweighting.py lines 44-48: the samples that make the loop raise, in the
\* order of the loop
BadSamples(shapes) ==
    SelectSeq(Samples, LAMBDA smp : samples_metadata[smp].isMC /\ ~ShapeOk(shapes[smp]))

InitCfg ==
    /\ cfg_options \in SUBSET OptionKeys
    /\ cfg_variables \in SUBSET HistNames
    /\ cfg_shapes \in [{"QCD_MuEnriched", "VJets", "DATA_BTagMu"} -> VariationLists]
    /\ proc_kind = "none"
    /\ proc_state = "unbuilt"
    /\ proc_error = <<>>
    /\ chunk_isMC = FALSE
    /\ chunk_state = "none"
    /\ chunk_error = <<>>
    /\ nchunks = 0

IdleCfg ==
    /\ cfg_options = {}
    /\ cfg_variables = {}
    /\ cfg_shapes = <<>>
    /\ proc_kind = "idle"
    /\ proc_state = "idle"
    /\ proc_error = <<>>
    /\ chunk_isMC = FALSE
    /\ chunk_state = "idle"
    /\ chunk_error = <<>>
    /\ nchunks = 0

\* mutagAnalysisProcessor.__init__, mutag_processor.py lines 10-16
ConstructMutag ==
    /\ proc_state = "unbuilt"
    /\ proc_kind' = "mutag"
    /\ IF "histograms_to_reweigh" \notin cfg_options
       THEN proc_state' = "raised" /\ proc_error' = <<"histograms_to_reweigh">>
       ELSE proc_state' = "built" /\ UNCHANGED proc_error
    /\ UNCHANGED <<cfg_options, cfg_variables, cfg_shapes, chunk_isMC, chunk_state,
                   chunk_error, nchunks>>
    /\ UNCHANGED othersCfg

\* ptReweightProcessor.__init__, pt_reweighting.py lines 20-38
ConstructPtReweight ==
    /\ proc_state = "unbuilt"
    /\ proc_kind' = "ptreweight"
    /\ IF MissingHists(cfg_variables) # <<>>
       THEN proc_state' = "raised" /\ proc_error' = <<Head(MissingHists(cfg_variables))>>
       ELSE proc_state' = "built" /\ UNCHANGED proc_error
    /\ UNCHANGED <<cfg_options, cfg_variables, cfg_shapes, chunk_isMC, chunk_state,
                   chunk_error, nchunks>>
    /\ UNCHANGED othersCfg

\* ptReweightProcessor.load_metadata_extra, pt_reweighting.py lines 40-48, run
\* on the built processor for the next chunk, of MC or of data
LoadMetadataExtra ==
    /\ proc_kind = "ptreweight" /\ proc_state = "built"
    /\ chunk_state \in {"none", "processed"}
    /\ nchunks < MaxChunks
    /\ \E isMC \in BOOLEAN :
          /\ chunk_isMC' = isMC
          /\ IF isMC /\ BadSamples(cfg_shapes) # <<>>
             THEN /\ chunk_state' = "raised"
                  /\ chunk_error' =
                        <<missing_shape_variations(cfg_shapes[Head(BadSamples(cfg_shapes))])>>
             ELSE /\ chunk_state' = "loaded"
                  /\ UNCHANGED chunk_error
    /\ UNCHANGED <<cfg_options, cfg_variables, cfg_shapes, proc_kind, proc_state,
                   proc_error, nchunks>>
    /\ UNCHANGED othersCfg

\* The events of a chunk are processed: by mutagAnalysisProcessor, which has no
\* load_metadata_extra of its own, or after load_metadata_extra has returned.
ProcessChunk ==
    /\ proc_state = "built"
    /\ nchunks < MaxChunks
    /\ \/ proc_kind = "mutag" /\ chunk_state \in {"none", "processed"}
       \/ proc_kind = "ptreweight" /\ chunk_state = "loaded"
    /\ chunk_state' = "processed"
    /\ nchunks' = nchunks + 1
    /\ UNCHANGED <<cfg_options, cfg_variables, cfg_shapes, proc_kind, proc_state,
                   proc_error, chunk_isMC, chunk_error>>
    /\ UNCHANGED othersCfg

NextCfg ==
    \/ ConstructMutag
    \/ ConstructPtReweight
    \/ LoadMetadataExtra
    \/ ProcessChunk

\* The histogram names and the shape variations as C6 gives them.
C6_RequiredHists == {"FatJetGood_pt_eta", "FatJetGood_pt_eta_tau21",
                     "FatJetGood_pt_eta_tau21_bintau05"}
C6_Expected == {"JES_Total_AK8PFPuppi", "JER_AK8PFPuppi"}
C6_MCSamples == {"QCD_MuEnriched", "VJets"}

MaxObj1 == 2
MaxObj2 == 2
DRValues == {3, 8, 9}
MatchRadius == 8        \* radius=0.8 of muons_matched_to_fatjet, sv_matched_to_fatjet
DefaultRadius == 4      \* radius=0.4, the default of run_deltar_matching

\* ak.argmin along one axis: the first index of the smallest value
RECURSIVE ArgMinFrom(_, _, _)
ArgMinFrom(col, k, best) ==
    IF k > Len(col) THEN best
    ELSE ArgMinFrom(col, k + 1, IF col[k] < col[best] THEN k ELSE best)
ArgMin(col) == ArgMinFrom(col, 2, 1)

\* line 15 with the radius included
InConeInclusive(dR, radius) == dR <= radius

\* line 15: obj2.dR < radius
InCone(dR, radius) == dR < radius

\* line 10: t_index = ak.argmin(obj2.dR, axis=-2), one obj1 index per obj2
TIndex(dr, nobj2) ==
    [g \in 1..nobj2 |-> ArgMin([m \in 1..Len(dr) |-> dr[m][g]])]

\* lines 8-16: for every obj1 m the obj2 kept by s_index == t_index and by the
\* cut on delta-R, in the order of obj2
run_deltar_matching(dr, nobj2, radius) ==
    [m \in 1..Len(dr) |->
        LET kept == SelectSeq([g \in 1..nobj2 |-> g],
                        LAMBDA g : m = TIndex(dr, nobj2)[g] /\ InCone(dr[m][g], radius))
        IN  [k \in 1..Len(kept) |-> [obj2 |-> kept[k], dR |-> dr[m][kept[k]]]]]

InitDm ==
    /\ dm_nobj2 \in 0..MaxObj2
    /\ \E nobj1 \in 0..MaxObj1 : dm_dr \in [1..nobj1 -> [1..dm_nobj2 -> DRValues]]
    /\ dm_radius = <<>>
    /\ dm_out = <<>>
    /\ pcDm = "start"

IdleDm ==
    /\ dm_nobj2 = 0
    /\ dm_dr = <<>>
    /\ dm_radius = <<>>
    /\ dm_out = <<>>
    /\ pcDm = "idle"

\* muon_matching.py lines 4-8
MuonsMatchedToFatjet ==
    /\ pcDm = "start"
    /\ dm_radius' = <<MatchRadius>>
    /\ dm_out' = run_deltar_matching(dm_dr, dm_nobj2, MatchRadius)
    /\ pcDm' = "muons"
    /\ UNCHANGED <<dm_dr, dm_nobj2>>
    /\ UNCHANGED othersDm

\* sv.py lines 12-16
SvMatchedToFatjet ==
    /\ pcDm = "start"
    /\ dm_radius' = <<MatchRadius>>
    /\ dm_out' = run_deltar_matching(dm_dr, dm_nobj2, MatchRadius)
    /\ pcDm' = "sv"
    /\ UNCHANGED <<dm_dr, dm_nobj2>>
    /\ UNCHANGED othersDm

\* run_deltar_matching(obj1, obj2) with the default radius
RunDeltarMatching ==
    /\ pcDm = "start"
    /\ dm_radius' = <<DefaultRadius>>
    /\ dm_out' = run_deltar_matching(dm_dr, dm_nobj2, DefaultRadius)
    /\ pcDm' = "direct"
    /\ UNCHANGED <<dm_dr, dm_nobj2>>
    /\ UNCHANGED othersDm

NextDm ==
    \/ MuonsMatchedToFatjet
    \/ SvMatchedToFatjet
    \/ RunDeltarMatching

\* The obj2 indices of the output list of obj1 m.
Obj2Of(m) == {dm_out[m][k].obj2 : k \in 1..Len(dm_out[m])}

\* C7: the output has one list per obj1; obj2 g is in the list of obj1 m
\* exactly when m is at minimum delta-R from g, no obj1 of lower index is as
\* close, and that delta-R is strictly below the radius; so every obj2 is in
\* at most one list, and each list holds its obj2 once, in obj2 order.
C7_UniqueAssignment ==
    pcDm \in {"muons", "sv", "direct"} =>
        /\ Len(dm_out) = Len(dm_dr)
        /\ \A m \in 1..Len(dm_dr) : \A g \in 1..dm_nobj2 :
              g \in Obj2Of(m) <=>
                  /\ dm_dr[m][g] < dm_radius[1]
                  /\ \A j \in 1..Len(dm_dr) : dm_dr[j][g] >= dm_dr[m][g]
                  /\ \A j \in 1..(m - 1) : dm_dr[j][g] > dm_dr[m][g]
        /\ \A g \in 1..dm_nobj2 :
              Cardinality({m \in 1..Len(dm_dr) : g \in Obj2Of(m)}) <= 1
        /\ \A m \in 1..Len(dm_dr) :
              /\ Obj2Of(m) \subseteq 1..dm_nobj2
              /\ \A k \in 1..(Len(dm_out[m]) - 1) :
                    dm_out[m][k].obj2 < dm_out[m][k + 1].obj2

\* C7 witness: two fat jets and two muons; the first muon is as close to the
\* one jet as to the other and goes to the first, which also gets the second
\* muon; the second jet gets an empty list.
C7_Witness ==
    /\ pcDm = "muons"
    /\ dm_dr = << <<3, 3>>, <<3, 8>> >>
    /\ Len(dm_out) = 2
    /\ Len(dm_out[1]) = 2
    /\ dm_out[2] = <<>>

(***************************************************************************)
(* mutag_processor.py: mutagAnalysisProcessor.ptetatau21_reweighting       *)
(***************************************************************************)
NCorrBins == 2
MaxRwEvents == 2

\* A fat jet: its pos (0 leading, 1 subleading) and its (pt, eta, tau21) bin.
RwJets == [pos : {0, 1}, bin : 1..NCorrBins]

\* The FatJetGood of an event: at most the jet of pos 0 and the jet of pos 1.
RwEventTypes ==
    {<<>>} \cup {<<j>> : j \in RwJets}
           \cup {<<j, k>> : j \in {x \in RwJets : x.pos = 0}, k \in {x \in RwJets : x.pos = 1}}

\* line 46: corr.evaluate(cat, variation, var, pos, pt, eta, tau21), the
\* content of the correction file: a nominal value per pos and bin, the
\* statistical variations around it.
Corr(var, jet) ==
    LET nominal == 10 * jet.bin + 2 * jet.pos
    IN  IF var = "statUp" THEN nominal + 1
        ELSE IF var = "statDown" THEN nominal - 1
        ELSE nominal

\* line 47: weight_dict["all"][var] = ak.unflatten(w, nfatjet)
WeightAll(events, var) ==
    [e \in 1..Len(events) |-> [j \in 1..Len(events[e]) |-> Corr(var, events[e][j])]]

\* lines 51-52: ak.fill_none(ak.firsts(weight_dict["all"]["nominal"][pos == p]), 1)
FirstsOrOne(events, all_weights, p) ==
    [e \in 1..Len(events) |->
        LET sel == SelectSeq([j \in 1..Len(events[e]) |-> j],
                             LAMBDA j : events[e][j].pos = p)
        IN  IF sel = <<>> THEN 1 ELSE all_weights[e][Head(sel)]]

\* lines 44-52: weight_dict after the loop over the variations
WeightDict(events) ==
    [key \in {"all", "1", "2"} |->
        [var \in {"nominal", "statUp", "statDown"} |->
            IF key = "all" THEN WeightAll(events, var)
            ELSE FirstsOrOne(events, WeightAll(events, "nominal"),
                             IF key = "1" THEN 0 ELSE 1)]]

\* lines 59-64: the variation stored under each name of self.weight_3d[pos]
StoredVariation ==
    [name \in {"nominal", "sf_ptetatau21_reweightingUp", "sf_ptetatau21_reweightingDown"} |->
        IF name = "nominal" THEN "nominal"
        ELSE IF name = "sf_ptetatau21_reweightingUp" THEN "statUp" ELSE "statDown"]

InitRw ==
    /\ \E n \in 1..MaxRwEvents : rw_events \in [1..n -> RwEventTypes]
    /\ weight_3d = <<>>
    /\ pcRw = "start"

IdleRw ==
    /\ rw_events = <<>>
    /\ weight_3d = <<>>
    /\ pcRw = "idle"

\* ptetatau21_reweighting, lines 28-64
PtEtaTau21Reweighting ==
    /\ pcRw = "start"
    /\ weight_3d' = [key \in {"all", "1", "2"} |->
                        [name \in DOMAIN StoredVariation |->
                            WeightDict(rw_events)[key][StoredVariation[name]]]]
    /\ pcRw' = "done"
    /\ UNCHANGED rw_events
    /\ UNCHANGED othersRw

NextRw == PtEtaTau21Reweighting

\* The weight C8 expects under a key and a variation for an event: for 'all'
\* the correction of every jet, for '1' and '2' the correction of the jet of
\* pos 0 resp. 1, and 1 when the event has no such jet.
C8_Expected(key, var, event) ==
    IF key = "all" THEN [j \in 1..Len(event) |-> Corr(var, event[j])]
    ELSE LET p == IF key = "1" THEN 0 ELSE 1
             js == {j \in 1..Len(event) : event[j].pos = p}
         IN  IF js = {} THEN 1 ELSE Corr(var, event[CHOOSE j \in js : TRUE])

\* C8: after ptetatau21_reweighting, each of the keys 'all', '1', '2' of
\* weight_3d holds under 'nominal', 'sf_ptetatau21_reweightingUp' and
\* 'sf_ptetatau21_reweightingDown' the correction evaluated with 'nominal',
\* 'statUp' and 'statDown'.
C8_ThreeVariations ==
    pcRw = "done" =>
        \A key \in {"all", "1", "2"} : \A e \in 1..Len(rw_events) :
            /\ weight_3d[key]["nominal"][e] = C8_Expected(key, "nominal", rw_events[e])
            /\ weight_3d[key]["sf_ptetatau21_reweightingUp"][e]
                  = C8_Expected(key, "statUp", rw_events[e])
            /\ weight_3d[key]["sf_ptetatau21_reweightingDown"][e]
                  = C8_Expected(key, "statDown", rw_events[e])

(***************************************************************************)
(* Failures and missing files across the scripts                           *)
(***************************************************************************)
\* The dump of item k of year y has been attempted and the loop went on.
DumpPast(y, k) ==
    \/ pcDump \in {"report", "done"}
    \/ dyear > y
    \/ dyear = y /\ (ditem > k \/ pcDump = "combine")

\* The number of dumps the loop has gone past.
DumpCount == Cardinality({f \in AllDumps : DumpPast(f[1], f[2])})

\* The processing of entry i raises: its file exists, is not read by an
\* earlier entry, and cannot be loaded or parsed.
EntryRaises(i) ==
    /\ PrescaleEntries[i].path \in json_exists \cap json_bad
    /\ \A j \in 1..(i - 1) : PrescaleEntries[j].path # PrescaleEntries[i].path

\* The JSON files whose entries end up in all_prescale_data.
LoadedPaths == {all_prescale_data[i].json_file : i \in 1..Len(all_prescale_data)}

\* C4 as stated: a non-zero exit of combine, a dump that raises and a prescale
\* file that raises end the enclosing script before any later step: no
\* extraction and no later fit after a failed combine, no step after the
\* failed dump, no entry after the failed file.
C4_TerminatesAtFailure ==
    /\ pcMain # "idle" =>
          \A d \in CutDirs :
              (combine_runs[d] # <<>> /\ Last(combine_runs[d]) # 0) =>
                  /\ extract_exits[d] = <<>>
                  /\ \A e \in CutDirs : e > d => fit_exits[e] = <<>>
    /\ \A f \in dump_fails : ~DumpPast(f[1], f[2])
    /\ \A i \in 1..Len(PrescaleEntries) : EntryRaises(i) => an_i <= i

\* C4 amended: nothing is retried; run_fit_results.py ends at once when
\* fit_diagnostics.py or extract_fit_results.py exits non-zero, but a
\* fit_diagnostics.py that exits 0 (whatever the exit code of combine) is
\* followed by the extraction; the dump loop records a dump that raised in
\* failed_categories and goes on to the report; analyze_prescales.py prints the
\* error of a file and goes on to the last entry.
C4_FailureHandling ==
    /\ pcMain # "idle" =>
          \A d \in CutDirs :
              /\ Len(combine_runs[d]) <= 1
              /\ Len(fit_exits[d]) <= 1
              /\ Len(extract_exits[d]) <= 1
              /\ (fit_exits[d] # <<>> /\ fit_exits[d][1] # 0) =>
                    /\ idx = d /\ pcMain \in {"fit", "aborted"}
                    /\ extract_exits[d] = <<>> /\ summary_csv = <<>>
              /\ (extract_exits[d] # <<>> /\ extract_exits[d][1] # 0) =>
                    /\ idx = d /\ pcMain = "aborted" /\ summary_csv = <<>>
              /\ fit_exits[d] = <<0>> =>
                    \/ idx = d /\ pcMain \in {"fit", "extract"}
                    \/ extract_exits[d] # <<>>
    /\ pcDump # "aborted"
    /\ Len(successful_categories) + Len(failed_categories) = DumpCount
    /\ Len(failed_categories) = Cardinality({f \in dump_fails : DumpPast(f[1], f[2])})
    /\ pcDump = "done" => report_total = <<Cardinality(AllDumps)>>
    /\ pcAn # "aborted"
    /\ (config_exists /\ pcAn \in {"after", "returned"}) =>
          /\ an_i = Len(PrescaleEntries) + 1
          /\ LoadedPaths = json_exists \ json_bad

\* C4 witness: the very first dump raised, the loop went through every other
\* dump and the report was printed.
C4_Witness ==
    /\ pcDump = "done"
    /\ <<1, 1>> \in dump_fails
    /\ Len(failed_categories) = 1
    /\ Len(successful_categories) = Cardinality(AllDumps) - 1

NTau == 3

\* The edges of the tau21 axis of the fit templates (fit_templates_Run3.py
\* line 65), of which the axis of the model keeps the first NTau bins.
ConfiguredEdges == <<0, 20, 25, 30, 35, 40, 45, 50, 55, 60, 65, 70, 75, 80, 100>>
TauEdges == SubSeq(ConfiguredEdges, 1, NTau + 1)

\* The bins of the axis that is not integrated.
XBins == {"lo", "hi"}

\* (process, dataset) keys of h2d_dict, in the order of the dictionary
HistKeys == << <<"b", "QCD_MuEnriched_b">>, <<"c", "QCD_MuEnriched_c">> >>

\* The cuts get_1d_histogram is called with: below the first upper edge, on an
\* edge, inside a bin, on the last edge and beyond it.
CutValues == {10, 20, 22, 25, 27, TauEdges[NTau + 1], TauEdges[NTau + 1] + 5}

\* The weight a filled tau21 bin holds: a different power of two per bin.
RECURSIVE Pow2(_)
Pow2(n) == IF n = 0 THEN 1 ELSE 2 * Pow2(n - 1)

\* line 288 taking the first upper edge that is not below the cut
BinStopInclusive(edges, cut) ==
    LET found == {i \in 0..(Len(edges) - 2) : edges[i + 2] >= cut}
    IN  IF found = {} THEN <<>> ELSE <<CHOOSE i \in found : \A j \in found : i <= j>>

\* line 288: next(i for i, edge in enumerate(edges[1:]) if edge > cut);
\* <<>> stands for the StopIteration of an exhausted generator
BinStop(edges, cut) ==
    LET found == {i \in 0..(Len(edges) - 2) : edges[i + 2] > cut}
    IN  IF found = {} THEN <<>> ELSE <<CHOOSE i \in found : \A j \in found : i <= j>>

\* line 289: histo2d.integrate(name, 0, bin_stop), the sum over the bins
\* 0 .. bin_stop - 1 of the axis, the flow bins left out
RECURSIVE SumBins(_, _, _)
SumBins(row, first, stop) ==
    IF first >= stop THEN 0 ELSE row[first + 1] + SumBins(row, first + 1, stop)
Integrate(histo2d, stop) == [x \in XBins |-> SumBins(histo2d[x], 0, stop)]

\* The second histogram of the dictionary: every bin filled.
FullHist == [x \in XBins |-> [t \in 0..(NTau + 1) |-> Pow2(t)]]

InitH1 ==
    /\ \E filled \in [XBins -> SUBSET (0..(NTau + 1))] :
          h2d_dict = [k \in 1..Len(HistKeys) |->
                        IF k = 1
                        THEN [x \in XBins |-> [t \in 0..(NTau + 1) |->
                                  IF t \in filled[x] THEN Pow2(t) ELSE 0]]
                        ELSE FullHist]
    /\ tau21_cut \in CutValues
    /\ h1d_dict = <<>>
    /\ h1_error = <<>>
    /\ pcH1 = "start"

IdleH1 ==
    /\ h2d_dict = <<>>
    /\ tau21_cut = 0
    /\ h1d_dict = <<>>
    /\ h1_error = <<>>
    /\ pcH1 = "idle"

\* get_1d_histogram, lines 278-292.  With bin_stop = 0 the slice 0:0 handed to
\* the histogram library is empty: the library either rejects it or returns
\* an empty sum.
Get1dHistogram ==
    /\ pcH1 = "start"
    /\ LET bin_stop == BinStop(TauEdges, tau21_cut)
           result == [k \in 1..Len(HistKeys) |-> Integrate(h2d_dict[k], bin_stop[1])]
       IN  IF bin_stop = <<>>
           THEN /\ pcH1' = "raised"
                /\ h1_error' = <<"StopIteration">>
                /\ UNCHANGED h1d_dict
           ELSE IF bin_stop[1] = 0
                THEN \/ /\ pcH1' = "raised"
                        /\ h1_error' = <<"ValueError">>
                        /\ UNCHANGED h1d_dict
                     \/ /\ pcH1' = "returned"
                        /\ h1d_dict' = result
                        /\ UNCHANGED h1_error
                ELSE /\ pcH1' = "returned"
                     /\ h1d_dict' = result
                     /\ UNCHANGED h1_error
    /\ UNCHANGED <<h2d_dict, tau21_cut>>
    /\ UNCHANGED othersH1

NextH1 == Get1dHistogram

\* The content C11 expects in bin x of a histogram: that of the tau21 bins
\* (flow left out) whose upper edge is at most the cut.
C11_Expected(histo2d, x, cut) ==
    LET bins == {t \in 1..NTau : TauEdges[t + 1] <= cut}
        RECURSIVE Total(_)
        Total(S) == IF S = {} THEN 0
                    ELSE LET t == CHOOSE u \in S : TRUE
                         IN  histo2d[x][t] + Total(S \ {t})
    IN  Total(bins)

MaxSV == 2
SVMassValues == {0, 1, 3, 5}

\* np.log(m)
NpLog(m) == IF m = 0 THEN [kind |-> "-inf", arg |-> 0] ELSE [kind |-> "log", arg |-> m]

\* the default of lines 35 and 65
LogDefault == [kind |-> "number", arg |-> -5]

\* lines 31-36, log=True, for the jet at hand: the summed momentum of no
\* secondary vertex is zero, and so is its projection
get_projmass(svs, proj) ==
    LET nsv == Len(svs)
        projmass == IF nsv = 0 THEN 0 ELSE proj
    IN  [mass |-> projmass, log |-> IF nsv < 1 THEN LogDefault ELSE NpLog(projmass)]

\* lines 59-66, log=True
get_sv1mass(svs) ==
    LET sv1mass == IF svs = <<>> THEN 0 ELSE Head(svs)
    IN  [mass |-> sv1mass, log |-> IF sv1mass = 0 THEN LogDefault ELSE NpLog(sv1mass)]

\* lines 72-78, log=True; the mass of the summed four-momenta is taken as the
\* sum of the masses
get_sumcorrmass(svs) ==
    LET sumcorrmass == SeqSum(svs)
    IN  [mass |-> sumcorrmass, log |-> NpLog(sumcorrmass)]

InitSv ==
    /\ \E n \in 0..MaxSV : sv_masses \in [1..n -> SVMassValues]
    /\ sv_proj \in SVMassValues
    /\ sv_result = <<>>
    /\ pcSv = "start"

IdleSv ==
    /\ sv_masses = <<>>
    /\ sv_proj = 0
    /\ sv_result = <<>>
    /\ pcSv = "idle"

GetProjmass ==
    /\ pcSv = "start"
    /\ sv_result' = <<get_projmass(sv_masses, sv_proj)>>
    /\ pcSv' = "projmass"
    /\ UNCHANGED <<sv_masses, sv_proj>>
    /\ UNCHANGED othersSv

GetSv1mass ==
    /\ pcSv = "start"
    /\ sv_result' = <<get_sv1mass(sv_masses)>>
    /\ pcSv' = "sv1mass"
    /\ UNCHANGED <<sv_masses, sv_proj>>
    /\ UNCHANGED othersSv

GetSumcorrmass ==
    /\ pcSv = "start"
    /\ sv_result' = <<get_sumcorrmass(sv_masses)>>
    /\ pcSv' = "sumcorrmass"
    /\ UNCHANGED <<sv_masses, sv_proj>>
    /\ UNCHANGED othersSv

NextSv ==
    \/ GetProjmass
    \/ GetSv1mass
    \/ GetSumcorrmass

\* C12: for a jet without secondary vertices each of get_sv1mass,
\* get_projmass and get_sumcorrmass returns the mass 0 and the log value -5,
\* never minus infinity.
C12_LogMassDefault ==
    (pcSv \in {"sv1mass", "projmass", "sumcorrmass"} /\ sv_masses = <<>>) =>
        /\ sv_result[1].mass = 0
        /\ sv_result[1].log = [kind |-> "number", arg |-> -5]

\* get_sv1mass and get_projmass alone keep the default for a jet without
\* secondary vertices.
C12_DefaultOfTwo ==
    (pcSv \in {"sv1mass", "projmass"} /\ sv_masses = <<>>) =>
        sv_result[1] = [mass |-> 0, log |-> [kind |-> "number", arg |-> -5]]

(***************************************************************************)
(* compute_3d_reweighting.py: overwrite_check, pt_reweighting and the loop *)
(* of __main__ over the histogram names.  The content of a file is "old"   *)
(* (from before the run), "" (opened for writing) or "new".                *)
(***************************************************************************)
\* lines 65-78 and 189
ReweightMaps == <<"FatJetGood_pt_eta", "FatJetGood_pt_eta_tau21",
                  "FatJetGood_pt_eta_tau21_bintau05">>

\* line 81: the data-taking periods of the accumulator
ReweightYears == <<"2022_preEE", "2022_postEE">>

\* line 147: the files '<histname>_<year>_reweighting.json' in the order the
\* loops of lines 189 and 90 reach them
OutFiles ==
    [k \in 1..(Len(ReweightMaps) * Len(ReweightYears)) |->
        <<ReweightMaps[((k - 1) \div Len(ReweightYears)) + 1],
          ReweightYears[((k - 1) % Len(ReweightYears)) + 1], "reweighting.json">>]

\* lines 148-149 with the check left out
CheckNever(overwrite) == FALSE

\* lines 148-149: overwrite_check is called unless overwrite is set
CheckNeeded(overwrite) == ~overwrite

\* lines 61-63
overwrite_check(disk, k) == IF disk[k] # <<>> THEN "raise" ELSE "pass"

InitOw ==
    /\ ow_existing \in SUBSET (1..Len(OutFiles))
    /\ ow_overwrite \in BOOLEAN
    /\ ow_disk = [k \in 1..Len(OutFiles) |-> IF k \in ow_existing THEN <<"old">> ELSE <<>>]
    /\ ow_k = 1
    /\ pcOw = "check"

IdleOw ==
    /\ ow_existing = {}
    /\ ow_overwrite = FALSE
    /\ ow_disk = <<>>
    /\ ow_k = 0
    /\ pcOw = "idle"

\* lines 146-149: the existence check, after the correction has been built
OverwriteCheck ==
    /\ pcOw = "check"
    /\ pcOw' = IF CheckNeeded(ow_overwrite) /\ overwrite_check(ow_disk, ow_k) = "raise"
               THEN "raised" ELSE "open"
    /\ UNCHANGED <<ow_existing, ow_overwrite, ow_disk, ow_k>>
    /\ UNCHANGED othersOw

\* line 151: open(outfile_reweighting, "w") creates or truncates the file
OpenForWriting ==
    /\ pcOw = "open"
    /\ ow_disk' = [ow_disk EXCEPT ![ow_k] = <<"">>]
    /\ pcOw' = "write"
    /\ UNCHANGED <<ow_existing, ow_overwrite, ow_k>>
    /\ UNCHANGED othersOw

\* lines 152-153 and the next turn of the loops of lines 90 and 189
WriteCorrection ==
    /\ pcOw = "write"
    /\ ow_disk' = [ow_disk EXCEPT ![ow_k] = <<"new">>]
    /\ IF ow_k = Len(OutFiles)
       THEN pcOw' = "done" /\ UNCHANGED ow_k
       ELSE pcOw' = "check" /\ ow_k' = ow_k + 1
    /\ UNCHANGED <<ow_existing, ow_overwrite>>
    /\ UNCHANGED othersOw

NextOw ==
    \/ OverwriteCheck
    \/ OpenForWriting
    \/ WriteCorrection

\* C13: without --overwrite every file that existed before the run keeps its
\* content, the run ends by raising at the first of them before opening it,
\* and the files written before that point stay on disk complete.
C13_NoOverwrite ==
    (pcOw # "idle" /\ ~ow_overwrite) =>
        /\ \A k \in ow_existing : ow_disk[k] = <<"old">>
        /\ pcOw = "raised" => (ow_k \in ow_existing /\ \A j \in 1..(ow_k - 1) : j \notin ow_existing)
        /\ pcOw \in {"open", "write"} => ow_k \notin ow_existing
        /\ \A j \in 1..(ow_k - 1) : ow_disk[j] = <<"new">>
        /\ \A j \in (ow_k + 1)..Len(OutFiles) : j \notin ow_existing => ow_disk[j] = <<>>

\* C13 witness: the file of the second histogram name and first year existed;
\* the run raised there after writing both files of the first name.
C13_Witness ==
    /\ ~ow_overwrite /\ pcOw = "raised"
    /\ ow_k = 3
    /\ ow_disk[1] = <<"new">> /\ ow_disk[2] = <<"new">>
    /\ ow_disk[3] = <<"old">>

(***************************************************************************)
(* jec/rename_jecs.py: rename_files_with_data as main calls it.  A file    *)
(* name is the list of its pieces: "DATA", "_", "-" and other text.        *)
(***************************************************************************)
\* The names an entry of the folder may have.
RnNames == { <<"DATA", "_", "_">>, <<"DATA", "-", "_">>, <<"DATA", "x">>,
             <<"MC", "_", "x">>, <<"x", "_", "DATA">> }

\* "piece" in filename
Contains(filename, piece) == \E i \in 1..Len(filename) : filename[i] = piece

\* line 48: filename.replace("_", "-", 1)
ReplaceFirst(filename) ==
    LET first == CHOOSE i \in 1..Len(filename) :
                     filename[i] = "_" /\ \A j \in 1..(i - 1) : filename[j] # "_"
    IN  [filename EXCEPT ![first] = "-"]

\* line 55 renaming in every mode
RenameAlways(dry_run) == TRUE

\* line 55: if not dry_run
RenameWanted(dry_run) == ~dry_run

\* line 57, file_path.rename(new_file_path): the entries after it, or <<>>
\* when it raises (no such file, or the target is a directory)
PathRename(entries, old, new) ==
    IF entries[old] = <<>> \/ (new \in DOMAIN entries /\ entries[new] = <<"dir">>)
    THEN <<>>
    ELSE <<[n \in DOMAIN entries \cup {new} |->
              IF n = new THEN entries[old] ELSE IF n = old THEN <<>> ELSE entries[n]]>>

InitRn ==
    /\ rn_folder \in {"missing", "file", "dir"}
    /\ \E kind \in [RnNames -> {"absent", "dir", "file"}] :
          rn_initial = [n \in RnNames |->
                           IF rn_folder # "dir" \/ kind[n] = "absent" THEN <<>>
                           ELSE IF kind[n] = "dir" THEN <<"dir">> ELSE <<"file", n>>]
    /\ rn_entries = rn_initial
    /\ rn_dry_run \in BOOLEAN
    /\ rn_files = {}
    /\ renamed_count = 0
    /\ rn_return = <<>>
    /\ pcRn = "start"

IdleRn ==
    /\ rn_folder = "idle"
    /\ rn_initial = <<>>
    /\ rn_entries = <<>>
    /\ rn_dry_run = FALSE
    /\ rn_files = {}
    /\ renamed_count = 0
    /\ rn_return = <<>>
    /\ pcRn = "idle"

\* lines 23-39: the checks of the folder and the list of its files
ListFiles ==
    /\ pcRn = "start"
    /\ IF rn_folder # "dir"
       THEN /\ rn_return' = <<0>>
            /\ pcRn' = "returned"
            /\ UNCHANGED rn_files
       ELSE /\ rn_files' = {n \in DOMAIN rn_entries :
                               rn_entries[n] # <<>> /\ rn_entries[n][1] = "file"}
            /\ pcRn' = "loop"
            /\ UNCHANGED rn_return
    /\ UNCHANGED <<rn_folder, rn_initial, rn_entries, rn_dry_run, renamed_count>>
    /\ UNCHANGED othersRn

\* lines 41-69: one file of the list, in the order iterdir gave
VisitFile ==
    /\ pcRn = "loop"
    /\ \E filename \in rn_files :
          /\ rn_files' = rn_files \ {filename}
          /\ IF Contains(filename, "DATA") /\ Contains(filename, "_")
             THEN IF RenameWanted(rn_dry_run)
                  THEN LET after == PathRename(rn_entries, filename, ReplaceFirst(filename))
                       IN  IF after = <<>>
                           THEN UNCHANGED <<rn_entries, renamed_count>>
                           ELSE /\ rn_entries' = after[1]
                                /\ renamed_count' = renamed_count + 1
                  ELSE /\ renamed_count' = renamed_count + 1
                       /\ UNCHANGED rn_entries
             ELSE UNCHANGED <<rn_entries, renamed_count>>
    /\ UNCHANGED <<rn_folder, rn_initial, rn_dry_run, rn_return, pcRn>>
    /\ UNCHANGED othersRn

\* line 71
ReturnCount ==
    /\ pcRn = "loop" /\ rn_files = {}
    /\ rn_return' = <<renamed_count>>
    /\ pcRn' = "returned"
    /\ UNCHANGED <<rn_folder, rn_initial, rn_entries, rn_dry_run, rn_files, renamed_count>>
    /\ UNCHANGED othersRn

NextRn ==
    \/ ListFiles
    \/ VisitFile
    \/ ReturnCount

\* C14: in dry-run mode the entries of the folder never change and the value
\* returned is the number of files whose name contains 'DATA' and an
\* underscore; for a folder that is missing or no directory the value is 0
\* and nothing changes, in either mode.
C14_DryRunTouchesNothing ==
    /\ (pcRn # "idle" /\ (rn_dry_run \/ rn_folder # "dir")) => rn_entries = rn_initial
    /\ (pcRn = "returned" /\ rn_folder # "dir") => rn_return = <<0>>
    /\ (pcRn = "returned" /\ rn_folder = "dir" /\ rn_dry_run) =>
          rn_return = <<Cardinality({n \in RnNames :
                            /\ rn_initial[n] = <<"file", n>>
                            /\ \E i \in 1..Len(n) : n[i] = "DATA"
                            /\ \E i \in 1..Len(n) : n[i] = "_"})>>

\* C14 witness: a dry run over a folder holding three files to rename, one of
\* them named like the target of another, beside a directory with such a name.
C14_Witness ==
    /\ pcRn = "returned" /\ rn_dry_run
    /\ rn_return = <<2>>
    /\ rn_initial[<<"DATA", "_", "_">>] = <<"file", <<"DATA", "_", "_">>>>
    /\ rn_initial[<<"DATA", "-", "_">>] = <<"file", <<"DATA", "-", "_">>>>
    /\ rn_initial[<<"x", "_", "DATA">>] = <<"dir">>

(***************************************************************************)
(* generate_prescale_yaml.py: calculate_weighted_average                   *)
(*                                                                         *)
(* A Python float is a binary floating-point number: every sum, product    *)
(* and quotient is rounded to the nearest number with a fixed count of     *)
(* significant bits, ties to even.  The model keeps that rule with         *)
(* SigBits significant bits in place of the 53 of a double, and writes a   *)
(* float as the fraction <<n, d>> it equals; the values are non-negative.  *)
(***************************************************************************)
MaxEntries == 3
SigBits == 7

\* float(weight) of lines 62 and 80: the weights of the entries
WeightValues == {85, 86, 100}

\* lumi_range_size, lines 63 and 73: <<>> for float('inf'), else <<size>>
RangeSizes == {<<>>, <<0>>, <<1>>, <<2>>}

\* The nearest float to n / d
RECURSIVE ShiftDown(_, _, _)
ShiftDown(n, d, k) == IF n < Pow2(SigBits) * d * Pow2(k) THEN k ELSE ShiftDown(n, d, k + 1)
RECURSIVE ShiftUp(_, _, _)
ShiftUp(n, d, k) == IF n * Pow2(k) >= Pow2(SigBits - 1) * d THEN k ELSE ShiftUp(n, d, k + 1)
NearestEven(n, d) ==
    LET m == n \div d
        r == n % d
    IN  IF 2 * r > d \/ (2 * r = d /\ m % 2 = 1) THEN m + 1 ELSE m
FlRound(n, d) ==
    IF n = 0 THEN <<0, 1>>
    ELSE IF n >= Pow2(SigBits) * d
         THEN LET k == ShiftDown(n, d, 0) IN <<NearestEven(n, d * Pow2(k)) * Pow2(k), 1>>
         ELSE LET k == ShiftUp(n, d, 0) IN <<NearestEven(n * Pow2(k), d), Pow2(k)>>

FlAdd(a, b) == FlRound(a[1] * b[2] + b[1] * a[2], a[2] * b[2])
FlMul(a, b) == FlRound(a[1] * b[1], a[2] * b[2])
FlDiv(a, b) == FlRound(a[1] * b[2], a[2] * b[1])

\* lines 98-101 counting an infinite range as 1
RangeSizeOne(range_size) == IF range_size = <<>> THEN <<1, 1>> ELSE <<range_size[1], 1>>

\* lines 96-101: the range size the sums take for an entry
RangeSize(range_size) == IF range_size = <<>> THEN <<1000, 1>> ELSE <<range_size[1], 1>>

\* lines 91-104: <<total_weight, total_range>> after the first k entries
RECURSIVE Totals(_, _)
Totals(entries, k) ==
    IF k = 0 THEN << <<0, 1>>, <<0, 1>> >>
    ELSE LET before == Totals(entries, k - 1)
             range_size == RangeSize(entries[k].lumi_range_size)
         IN  << FlAdd(before[1], FlMul(<<entries[k].weight, 1>>, range_size)),
                FlAdd(before[2], range_size) >>

\* lines 86-109
calculate_weighted_average(entries) ==
    IF entries = <<>> THEN <<0, 1>>
    ELSE LET totals == Totals(entries, Len(entries))
         IN  IF totals[2][1] = 0 THEN <<0, 1>> ELSE FlDiv(totals[1], totals[2])

InitWa ==
    /\ \E n \in 0..MaxEntries :
          prescale_entries \in [1..n -> [weight : WeightValues, lumi_range_size : RangeSizes]]
    /\ wa_result = <<>>
    /\ pcWa = "start"

IdleWa ==
    /\ prescale_entries = <<>>
    /\ wa_result = <<>>
    /\ pcWa = "idle"

CalculateWeightedAverage ==
    /\ pcWa = "start"
    /\ wa_result' = <<calculate_weighted_average(prescale_entries)>>
    /\ pcWa' = "returned"
    /\ UNCHANGED prescale_entries
    /\ UNCHANGED othersWa

NextWa == CalculateWeightedAverage

\* The size C15 gives an entry, and the exact sums over the entries.
C15_Size(entry) == IF entry.lumi_range_size = <<>> THEN 1000 ELSE entry.lumi_range_size[1]
RECURSIVE C15_SumW(_, _)
C15_SumW(entries, k) ==
    IF k = 0 THEN 0 ELSE entries[k].weight * C15_Size(entries[k]) + C15_SumW(entries, k - 1)
RECURSIVE C15_SumS(_, _)
C15_SumS(entries, k) ==
    IF k = 0 THEN 0 ELSE C15_Size(entries[k]) + C15_SumS(entries, k - 1)
C15_Weights == {prescale_entries[k].weight : k \in 1..Len(prescale_entries)}

C17_CategoryDir(y, k) ==
    <<DumpYears[y], ParentOf(DumpItems[k][1]), DumpItems[k][2], Last(DumpItems[k][1])>>

\* The entries of a list of records that are of year y and of category cat.
C17_Records(list, y, cat) ==
    {i \in 1..Len(list) : list[i].year = DumpYears[y] /\ list[i].category = cat}

\* C17: every dump the loop has gone past, of a category ending in pass or
\* fail, has left exactly one record: in successful_categories, with its own
\* folder, when it returned, and in failed_categories when it raised; the loop
\* is never ended by a dump that raised, and print_report gives
\* (years) * (categories) * 5 as the total.
C17_OneRecordPerDump ==
    pcDump # "idle" =>
        /\ \A f \in AllDumps :
              Last(DumpItems[f[2]][1]) \in {"pass", "fail"} =>
                  LET folders == {i \in 1..Len(successful_categories) :
                                     successful_categories[i].folder
                                         = C17_CategoryDir(f[1], f[2])}
                  IN  /\ Cardinality(folders) =
                            (IF DumpPast(f[1], f[2]) /\ f \notin dump_fails THEN 1 ELSE 0)
                      /\ \A i \in folders :
                            /\ successful_categories[i].year = DumpYears[f[1]]
                            /\ successful_categories[i].category = DumpItems[f[2]][1]
        /\ \A y \in 1..Len(DumpYears) : \A c \in 1..Len(DumpCats) :
              LET past == {f \in AllDumps : /\ f[1] = y
                                            /\ DumpItems[f[2]][1] = DumpCats[c]
                                            /\ DumpPast(f[1], f[2])}
              IN  /\ Cardinality(C17_Records(failed_categories, y, DumpCats[c]))
                        = Cardinality(past \cap dump_fails)
                  /\ Cardinality(C17_Records(successful_categories, y, DumpCats[c]))
                        = Cardinality(past \ dump_fails)
        /\ pcDump \notin {"aborted", "NameError"}
        /\ \A f \in dump_fails :
              (pcDump = "dump" /\ dyear = f[1] /\ ditem = f[2] + 1) =>
                  Len(failed_categories) >= 1
        /\ report_total # <<>> =>
              report_total = <<Len(DumpYears) * Len(DumpCats) * 5>>

\* C17 witness: a dump of a pass category of the first year and a dump of a
\* fail category of the second year raised, and the report counts all dumps.
C17_Witness ==
    /\ pcDump = "done"
    /\ dump_fails = {<<1, 2>>, <<2, Len(DumpItems)>>}
    /\ Len(failed_categories) = 2
    /\ failed_categories[1].category = DumpCats[1]
    /\ failed_categories[2].category = DumpCats[2]
    /\ Len(successful_categories) = Cardinality(AllDumps) - 2
    /\ report_total = <<Cardinality(AllDumps)>>

(***************************************************************************)
(* create_datacards.py: categorize_samples                                 *)
(*                                                                         *)
(* A sample name is the sequence of its pieces: the characters "_", "l",   *)
(* "c", "b" and words that hold none of them at either end.                *)
(***************************************************************************)
MaxSamples == 2

\* The sample names a cutflow may hold, in the order of Python's comparison
\* of str.
SampleOrder == << <<"DATA", "_", "BTagMu">>,
                  <<"DATA", "_", "l">>,
                  <<"QCD", "_", "Madgraph", "_", "b">>,
                  <<"QCD", "_", "MuEnriched", "_", "b", "b">>,
                  <<"QCD", "_", "MuEnriched", "_", "c", "c">>,
                  <<"QCD", "_", "MuEnriched", "_", "l">>,
                  <<"SingleTop">>,
                  <<"TTto4Q", "_", "b">>,
                  <<"VJets", "_", "c">> >>
SampleNames == {SampleOrder[k] : k \in 1..Len(SampleOrder)}

\* a < b in Python iff SampleRank(a) < SampleRank(b)
SampleRank(name) == CHOOSE k \in 1..Len(SampleOrder) : SampleOrder[k] = name

\* str.startswith(prefix)
startswith(name, prefix) ==
    Len(name) >= Len(prefix) /\ SubSeq(name, 1, Len(prefix)) = prefix

\* str.endswith(suffix); a tuple of suffixes is a set here
endswith(name, suffixes) ==
    \E suffix \in suffixes :
        /\ Len(name) >= Len(suffix)
        /\ SubSeq(name, Len(name) - Len(suffix) + 1, Len(name)) = suffix

\* lines 87-95 with the tests for "DATA_" and for "_l" in the other order
ListOfSuffixFirst(sample_name) ==
    IF startswith(sample_name, <<"QCD", "_", "Madgraph", "_">>) THEN "none"
    ELSE IF endswith(sample_name, {<<"_", "l">>}) THEN "light"
    ELSE IF startswith(sample_name, <<"DATA", "_">>) THEN "data_obs"
    ELSE IF endswith(sample_name, {<<"_", "c">>, <<"_", "c", "c">>}) THEN "c"
    ELSE IF endswith(sample_name, {<<"_", "b">>, <<"_", "b", "b">>}) THEN "b"
    ELSE "none"

\* lines 87-95: the set a sample name is added to, "none" if to none
ListOf(sample_name) ==
    IF startswith(sample_name, <<"QCD", "_", "Madgraph", "_">>) THEN "none"
    ELSE IF startswith(sample_name, <<"DATA", "_">>) THEN "data_obs"
    ELSE IF endswith(sample_name, {<<"_", "l">>}) THEN "light"
    ELSE IF endswith(sample_name, {<<"_", "c">>, <<"_", "c", "c">>}) THEN "c"
    ELSE IF endswith(sample_name, {<<"_", "b">>, <<"_", "b", "b">>}) THEN "b"
    ELSE "none"

\* sorted(list(a_set)) of lines 98-101
RECURSIVE SortedList(_)
SortedList(names) ==
    IF names = {} THEN <<>>
    ELSE LET first == CHOOSE n \in names : \A m \in names : SampleRank(n) <= SampleRank(m)
         IN  <<first>> \o SortedList(names \ {first})

\* categorize_samples(cutflow), lines 75-102
categorize_samples(cutflow) ==
    LET baseline_category == "inclusive"
        seen == UNION {cutflow[baseline_category][dataset] :
                          dataset \in DOMAIN cutflow[baseline_category]}
        Added(list) == {sample_name \in seen : ListOf(sample_name) = list}
    IN  [light    |-> SortedList(Added("light")),
         c        |-> SortedList(Added("c")),
         b        |-> SortedList(Added("b")),
         data_obs |-> SortedList(Added("data_obs"))]

CsDatasets == {"DATA_BTagMu_2022_preEE", "QCD_MuEnriched_2022_preEE"}
CsCategories == {"inclusive", "msd-80to170_Pt-300to350-pass"}

InitCs ==
    /\ \E inclusive \in [CsDatasets -> {S \in SUBSET SampleNames :
                                            Cardinality(S) <= MaxSamples}] :
       \E other \in [CsDatasets -> {{}, {<<"TTto4Q", "_", "b">>},
                                     {<<"DATA", "_", "BTagMu">>}}] :
          cs_cutflow = [category \in CsCategories |->
                           IF category = "inclusive" THEN inclusive ELSE other]
    /\ cs_samples = <<>>
    /\ pcCs = "start"

IdleCs ==
    /\ cs_cutflow = <<>>
    /\ cs_samples = <<>>
    /\ pcCs = "idle"

\* main line 330: samples = categorize_samples(cutflow)
CategorizeSamples ==
    /\ pcCs = "start"
    /\ cs_samples' = <<categorize_samples(cs_cutflow)>>
    /\ pcCs' = "returned"
    /\ UNCHANGED cs_cutflow
    /\ UNCHANGED othersCs

NextCs ==
    \/ CategorizeSamples

\* The elements of a list.
C18_Elems(list) == {list[k] : k \in 1..Len(list)}

\* The list C18 gives for a sample name.
C18_Expected(name) ==
    IF startswith(name, <<"QCD", "_", "Madgraph", "_">>) THEN {}
    ELSE IF startswith(name, <<"DATA", "_">>) THEN {"data_obs"}
    ELSE IF endswith(name, {<<"_", "l">>}) THEN {"light"}
    ELSE IF endswith(name, {<<"_", "c">>}) \/ endswith(name, {<<"_", "c", "c">>}) THEN {"c"}
    ELSE IF endswith(name, {<<"_", "b">>}) \/ endswith(name, {<<"_", "b", "b">>}) THEN {"b"}
    ELSE {}

\* C18: categorize_samples puts every sample name of the category 'inclusive'
\* in at most one of the four lists: none for a QCD_Madgraph_ name, else
\* data_obs for a DATA_ name, else by its ending light, c or b, else none; the
\* lists are pairwise disjoint, without duplicates and ascending, and hold no
\* name that occurs in other categories only.
C18_Categorized ==
    pcCs = "returned" =>
        LET samples == cs_samples[1]
            lists == {"light", "c", "b", "data_obs"}
            inclusive == UNION {cs_cutflow["inclusive"][ds] : ds \in CsDatasets}
        IN  /\ DOMAIN samples = lists
            /\ \A l \in lists :
                  /\ C18_Elems(samples[l]) \subseteq inclusive
                  /\ \A i, j \in 1..Len(samples[l]) :
                        i < j => SampleRank(samples[l][i]) < SampleRank(samples[l][j])
            /\ \A l1, l2 \in lists :
                  l1 # l2 => C18_Elems(samples[l1]) \cap C18_Elems(samples[l2]) = {}
            /\ \A name \in inclusive :
                  {l \in lists : name \in C18_Elems(samples[l])} = C18_Expected(name)

\* C18 witness: DATA_l went to data_obs and not to light, the Madgraph sample
\* to no list, a sample of both datasets once to c, and a b sample of the
\* other category to no list.
C18_Witness ==
    /\ pcCs = "returned"
    /\ cs_cutflow["inclusive"]["DATA_BTagMu_2022_preEE"]
          = {<<"DATA", "_", "l">>, <<"QCD", "_", "MuEnriched", "_", "c", "c">>}
    /\ cs_cutflow["inclusive"]["QCD_MuEnriched_2022_preEE"]
          = {<<"QCD", "_", "Madgraph", "_", "b">>, <<"QCD", "_", "MuEnriched", "_", "c", "c">>}
    /\ cs_cutflow["msd-80to170_Pt-300to350-pass"]["QCD_MuEnriched_2022_preEE"]
          = {<<"TTto4Q", "_", "b">>}
    /\ cs_samples[1] = [light |-> <<>>, b |-> <<>>,
                        c |-> << <<"QCD", "_", "MuEnriched", "_", "c", "c">> >>,
                        data_obs |-> << <<"DATA", "_", "l">> >>]

(***************************************************************************)
(* create_datacards.py: add_Madgraph_systematic                            *)
(*                                                                         *)
(* A histogram is [variations, view]: the list of the variation axis and,  *)
(* for every variation, the content of the cells of view(flow=True); the   *)
(* axes cat, logsumcorrSVmass and tau21 are one cell inside the axes and   *)
(* one flow cell.  A sample name "a_b__c_d_e" is the list of its parts     *)
(* around "__", each the list of its pieces around "_".                    *)
(*                                                                         *)
(* A bin content is a numpy float: the fraction <<n, d>> with d > 0, or    *)
(* nan = <<0, 0>>, inf = <<1, 0>>, -inf = <<-1, 0>>.  The arithmetic is     *)
(* exact on the fractions and follows numpy on the others: a division by   *)
(* zero gives inf or nan, never an exception.                              *)
(***************************************************************************)
MaxContent == 2

Abs(n) == IF n < 0 THEN -n ELSE n
Sign(n) == IF n < 0 THEN -1 ELSE IF n > 0 THEN 1 ELSE 0
RECURSIVE GCD(_, _)
GCD(a, b) == IF b = 0 THEN a ELSE GCD(b, a % b)

NaN == <<0, 0>>

\* The float of the fraction n / d, d >= 0.
QNorm(n, d) ==
    IF d = 0 THEN <<Sign(n), 0>>
    ELSE LET g == GCD(Abs(n), d) IN <<n \div g, d \div g>>

\* numpy: a * b
QMul(a, b) == QNorm(a[1] * b[1], a[2] * b[2])

\* numpy: a / b
QDiv(a, b) ==
    LET s == IF b[1] < 0 THEN -1 ELSE 1
    IN  QNorm(s * a[1] * b[2], a[2] * Abs(b[1]))

\* numpy: a + b
QAdd(a, b) ==
    IF a[2] # 0 /\ b[2] # 0 THEN QNorm(a[1] * b[2] + b[1] * a[2], a[2] * b[2])
    ELSE IF a = NaN \/ b = NaN THEN NaN
    ELSE IF a[2] = 0 /\ b[2] = 0 THEN (IF a = b THEN a ELSE NaN)
    ELSE IF a[2] = 0 THEN a ELSE b

\* numpy: a - b
QSub(a, b) == QAdd(a, <<-b[1], b[2]>>)

\* numpy: a > b, False when one of them is nan
QGreater(a, b) ==
    IF a = NaN \/ b = NaN THEN FALSE
    ELSE IF a[2] = 0 \/ b[2] = 0
         THEN (IF a[2] = 0 /\ b[2] = 0 THEN a[1] > b[1]
               ELSE IF a[2] = 0 THEN a[1] > 0 ELSE b[1] < 0)
         ELSE a[1] * b[2] > b[1] * a[2]

\* The cells of view(flow=True) of one variation: inside the axes, and in a
\* flow bin of one of them.
Cells == {"inner", "flow"}

\* the sum of a function of numbers over a finite set of keys
RECURSIVE QSum(_, _)
QSum(f, keys) ==
    IF keys = {} THEN <<0, 1>>
    ELSE LET k == CHOOSE x \in keys : TRUE
         IN  QAdd(f[k], QSum(f, keys \ {k}))

\* h.view(flow=True)[:, index(v), :, :].sum().value
Integral(h, v) == QSum(h.view[v], Cells)

\* h.values().sum(): the cells inside the axes, of every variation
HistValuesSum(h) == QSum([v \in DOMAIN h.view |-> h.view[v]["inner"]], DOMAIN h.view)

\* sum(h.values().sum() for h in datasets.values()), lines 232-233
DatasetsSum(datasets) ==
    QSum([ds \in DOMAIN datasets |-> HistValuesSum(datasets[ds])], DOMAIN datasets)

MuB == << <<"QCD", "MuEnriched">>, <<"QCD", "MuEnriched", "b">> >>
MgB == << <<"QCD", "Madgraph">>, <<"QCD", "Madgraph", "b">> >>
MuC == << <<"QCD", "MuEnriched">>, <<"QCD", "MuEnriched", "c">> >>
MgC == << <<"QCD", "Madgraph">>, <<"QCD", "Madgraph", "c">> >>
MgL == << <<"QCD", "Madgraph">>, <<"QCD", "Madgraph", "l">> >>
DataSample == << <<"DATA", "BTagMu">> >>

\* s.startswith("QCD_"), line 211
StartsWithQCD(s) == s[1][1] = "QCD" /\ (Len(s[1]) >= 2 \/ Len(s) >= 2)

\* lines 209-219: the flavors of the QCD samples
FlavorsOf(hists) ==
    LET qcd_samples == {s \in DOMAIN hists : StartsWithQCD(s)}
    IN  {Last(s[2]) : s \in {t \in qcd_samples : Len(t) >= 2 /\ Len(t[2]) >= 2}}

\* lines 223-224
mu_name(flav) == << <<"QCD", "MuEnriched">>, <<"QCD", "MuEnriched", flav>> >>
mg_name(flav) == << <<"QCD", "Madgraph">>, <<"QCD", "Madgraph", flav>> >>

\* lines 238-264: new_hist of the histogram h_mu of one dataset
NewHist(h_mu, ratio) ==
    LET current_vars == h_mu.variations
        new_vars == current_vars \o <<"QCD_MuEnriched_ratioUp", "QCD_MuEnriched_ratioDown">>
        nominal == h_mu.view["nominal"]
        up == [c \in Cells |-> QMul(nominal[c], ratio)]
        down == [c \in Cells |-> QMul(nominal[c], QSub(<<2, 1>>, ratio))]
        nominal_integral == QSum(nominal, Cells)
        up_integral == QSum(up, Cells)
        down_integral == QSum(down, Cells)
        up_factor == QDiv(nominal_integral, up_integral)
        down_factor == QDiv(nominal_integral, down_integral)
    IN  [variations |-> new_vars,
         view |-> [v \in {new_vars[k] : k \in 1..Len(new_vars)} |->
                     IF v = "QCD_MuEnriched_ratioUp"
                     THEN [c \in Cells |-> QMul(up[c], up_factor)]
                     ELSE IF v = "QCD_MuEnriched_ratioDown"
                     THEN [c \in Cells |-> QMul(down[c], down_factor)]
                     ELSE h_mu.view[v]]]

\* The datasets of a sample in the order of its dictionary.
DatasetOrder == <<"QCD_MuEnriched_PT-170to300", "QCD_MuEnriched_PT-300to470",
                  "QCD_Madgraph_HT-1000to1500">>
DatasetList(datasets) == SelectSeq(DatasetOrder, LAMBDA ds : ds \in DOMAIN datasets)

\* lines 238-276: the loop over the datasets of mu_name from the k-th on
RECURSIVE DatasetLoop(_, _, _, _)
DatasetLoop(hists, flav, ratio, k) ==
    LET order == DatasetList(hists[mu_name(flav)])
    IN  IF k > Len(order) THEN [raised |-> FALSE, hists |-> hists]
        ELSE LET new_hist == NewHist(hists[mu_name(flav)][order[k]], ratio)
             IN  IF QGreater(ratio, <<2, 1>>)
                 THEN [raised |-> TRUE, hists |-> hists]
                 ELSE DatasetLoop([hists EXCEPT ![mu_name(flav)][order[k]] = new_hist],
                                  flav, ratio, k + 1)

\* line 234
RatioOf(hists, flav) ==
    QDiv(DatasetsSum(hists[mg_name(flav)]), DatasetsSum(hists[mu_name(flav)]))

\* lines 221-276: the body of the loop over the flavors
FlavorBody(hists, flav) ==
    IF mu_name(flav) \notin DOMAIN hists \/ mg_name(flav) \notin DOMAIN hists
    THEN [raised |-> FALSE, hists |-> hists]
    ELSE DatasetLoop(hists, flav, RatioOf(hists, flav), 1)

\* A MuEnriched histogram: the variations nominal and pileupUp.
MuHist(inner, flow, pileup) ==
    [variations |-> <<"nominal", "pileupUp">>,
     view |-> [v \in {"nominal", "pileupUp"} |->
                 IF v = "nominal"
                 THEN [c \in Cells |-> IF c = "inner" THEN <<inner, 1>> ELSE <<flow, 1>>]
                 ELSE [c \in Cells |-> IF c = "inner" THEN <<pileup, 1>> ELSE <<0, 1>>]]]

\* A histogram with the nominal variation only.
NominalHist(inner) ==
    [variations |-> <<"nominal">>,
     view |-> [v \in {"nominal"} |->
                 [c \in Cells |-> IF c = "inner" THEN <<inner, 1>> ELSE <<0, 1>>]]]

MuHists == {MuHist(i, f, p) : i \in 0..MaxContent, f \in 0..1, p \in 0..1}

InitMs ==
    /\ \E h1 \in MuHists, h2 \in MuHists, mg \in {0, 1, 2, 5}, withMgC \in BOOLEAN :
          ms_hist = [s \in {MuB, MgB, MuC, MgL, DataSample}
                            \cup (IF withMgC THEN {MgC} ELSE {}) |->
                       IF s = MuB
                       THEN [ds \in {DatasetOrder[1], DatasetOrder[2]} |->
                                IF ds = DatasetOrder[1] THEN h1 ELSE h2]
                       ELSE IF s = MuC
                       THEN [ds \in {DatasetOrder[1]} |-> MuHist(2, 1, 1)]
                       ELSE IF s = MgB
                       THEN [ds \in {DatasetOrder[3]} |-> NominalHist(mg)]
                       ELSE IF s = DataSample
                       THEN [ds \in {"DATA_BTagMu_2022_preEE"} |-> NominalHist(1)]
                       ELSE [ds \in {DatasetOrder[3]} |-> NominalHist(2)]]
    /\ ms_initial = ms_hist
    /\ ms_done = {}
    /\ pcMs = "loop"

IdleMs ==
    /\ ms_hist = <<>>
    /\ ms_initial = <<>>
    /\ ms_done = {}
    /\ pcMs = "idle"

\* lines 221-276: one iteration of the loop over the set flavors, in any order
ProcessFlavor ==
    /\ pcMs = "loop"
    /\ \E flav \in FlavorsOf(ms_initial) \ ms_done :
          LET res == FlavorBody(ms_hist, flav)
          IN  /\ ms_hist' = res.hists
              /\ ms_done' = ms_done \cup {flav}
              /\ pcMs' = IF res.raised THEN "ValueError" ELSE "loop"
    /\ UNCHANGED ms_initial
    /\ UNCHANGED othersMs

\* the loop is over: the function returns
ReturnMs ==
    /\ pcMs = "loop"
    /\ FlavorsOf(ms_initial) \ ms_done = {}
    /\ pcMs' = "returned"
    /\ UNCHANGED <<ms_hist, ms_initial, ms_done>>
    /\ UNCHANGED othersMs

NextMs ==
    \/ ProcessFlavor
    \/ ReturnMs

\* The flavors of the argument with both a MuEnriched and a Madgraph sample.
C19_Paired == {f \in {"b", "c", "l"} :
                  mu_name(f) \in DOMAIN ms_initial /\ mg_name(f) \in DOMAIN ms_initial}

\* r = (Madgraph sum) / (MuEnriched sum) of a paired flavor, on the argument
C19_Ratio(f) == RatioOf(ms_initial, f)

\* 0 < r < 2
C19_InRange(f) == QGreater(C19_Ratio(f), <<0, 1>>) /\ QGreater(<<2, 1>>, C19_Ratio(f))

\* The histogram of dataset ds of the MuEnriched sample of f keeps the
\* variations it had, cell for cell, and has the two ratio variations.
C19_Extended(f, ds) ==
    LET old == ms_initial[mu_name(f)][ds]
        new == ms_hist[mu_name(f)][ds]
    IN  /\ new.variations = old.variations
                               \o <<"QCD_MuEnriched_ratioUp", "QCD_MuEnriched_ratioDown">>
        /\ \A v \in DOMAIN old.view : new.view[v] = old.view[v]

\* C19 as stated: a processed flavor with both samples and 0 < r < 2 has
\* every MuEnriched histogram extended by ratioUp and ratioDown, the old
\* variations unchanged and the integral of either new variation, flow cells
\* included, equal to the nominal integral; a flavor lacking a sample is
\* untouched; for r > 2 the function has raised ValueError with every
\* histogram of the flavor as it was.
C19_RatioVariations ==
    pcMs # "idle" =>
        \A f \in ms_done :
            /\ (f \in C19_Paired /\ C19_InRange(f)) =>
                  \A ds \in DOMAIN ms_initial[mu_name(f)] :
                      /\ C19_Extended(f, ds)
                      /\ Integral(ms_hist[mu_name(f)][ds], "QCD_MuEnriched_ratioUp")
                            = Integral(ms_hist[mu_name(f)][ds], "nominal")
                      /\ Integral(ms_hist[mu_name(f)][ds], "QCD_MuEnriched_ratioDown")
                            = Integral(ms_hist[mu_name(f)][ds], "nominal")
            /\ f \notin C19_Paired =>
                  \A s \in {mu_name(f), mg_name(f)} \cap DOMAIN ms_initial :
                      ms_hist[s] = ms_initial[s]
            /\ (f \in C19_Paired /\ QGreater(C19_Ratio(f), <<2, 1>>)) =>
                  /\ pcMs = "ValueError"
                  /\ ms_hist[mu_name(f)] = ms_initial[mu_name(f)]

\* The part of C19 that holds: the same, the integrals being equal for the
\* datasets whose nominal integral is not zero.
C19_NonEmptyDatasets ==
    pcMs # "idle" =>
        \A f \in ms_done :
            /\ (f \in C19_Paired /\ C19_InRange(f)) =>
                  \A ds \in DOMAIN ms_initial[mu_name(f)] :
                      /\ C19_Extended(f, ds)
                      /\ Integral(ms_initial[mu_name(f)][ds], "nominal") # <<0, 1>> =>
                            /\ Integral(ms_hist[mu_name(f)][ds], "QCD_MuEnriched_ratioUp")
                                  = Integral(ms_hist[mu_name(f)][ds], "nominal")
                            /\ Integral(ms_hist[mu_name(f)][ds], "QCD_MuEnriched_ratioDown")
                                  = Integral(ms_hist[mu_name(f)][ds], "nominal")
            /\ f \notin C19_Paired =>
                  \A s \in {mu_name(f), mg_name(f)} \cap DOMAIN ms_initial :
                      ms_hist[s] = ms_initial[s]
            /\ (f \in C19_Paired /\ QGreater(C19_Ratio(f), <<2, 1>>)) =>
                  /\ pcMs = "ValueError"
                  /\ ms_hist[mu_name(f)] = ms_initial[mu_name(f)]

\* The ratio variations of a dataset without nominal content are nan in
\* every cell.
C19_EmptyDatasetIsNaN ==
    pcMs # "idle" =>
        \A f \in ms_done \cap C19_Paired :
            C19_InRange(f) =>
                \A ds \in DOMAIN ms_initial[mu_name(f)] :
                    Integral(ms_initial[mu_name(f)][ds], "nominal") = <<0, 1>> =>
                        \A c \in Cells :
                            /\ ms_hist[mu_name(f)][ds].view["QCD_MuEnriched_ratioUp"][c] = NaN
                            /\ ms_hist[mu_name(f)][ds].view["QCD_MuEnriched_ratioDown"][c] = NaN

(***************************************************************************)
(* configs/fatjet_base/custom/jets.py: jet_correction_correctionlib        *)
(*                                                                         *)
(* The chunk holds one event.  A jet carries pt, mass, rawFactor, its      *)
(* generator index, and what the corrections evaluate to on it: corr (the  *)
(* compound JEC factor), sf (the JER scale factor) and res (the pt         *)
(* resolution).  Numbers are exact fractions; the scale factors are chosen *)
(* with a rational square root of sf^2 - 1.  An option value of awkward is *)
(* <<>> for None and <<x>> otherwise.                                      *)
(***************************************************************************)
MaxJets == 2

QAbs(a) == <<Abs(a[1]), a[2]>>

\* The root of a perfect square.
ISqrt(m) == CHOOSE k \in 0..m : k * k = m

\* np.sqrt of a fraction whose numerator and denominator are perfect squares
QSqrt(a) == <<ISqrt(a[1]), ISqrt(a[2])>>

QOne == <<1, 1>>

\* sf.evaluate(eta, 'nom'), line 109: below, at and above 1
ScaleFactors == {<<3, 4>>, <<1, 1>>, <<5, 4>>}

\* corr.evaluate(area, eta, pt_raw, rho), lines 65-70
CorrFactors == {<<1, 1>>, <<11, 10>>}

\* line 78: seed = events.event[0]
ChunkSeed == 7

\* np.random.normal(0, ptResolution), lines 156-164: the normal number of the
\* k-th jet of the chunk, fixed by the seed
RandomNormal(seed, k) == IF (seed + k) % 2 = 0 THEN <<-1, 10>> ELSE <<1, 10>>

\* The generator jets of the event: their pt.
GenJetLists == {<< <<100, 1>> >>, << <<140, 1>>, <<130, 1>> >>}

\* A reconstructed jet of the event.
JetOf(corr, sf, gen_idx) ==
    [pt |-> <<125, 1>>, mass |-> <<25, 1>>, rawFactor |-> <<1, 5>>,
     genJetAK8Idx |-> gen_idx, corr |-> corr, sf |-> sf, res |-> <<1, 10>>]

JetValues == {JetOf(corr, sf, gen_idx) : corr \in CorrFactors, sf \in ScaleFactors,
                                     gen_idx \in -1..2}

RECURSIVE ListsUpTo(_, _)
ListsUpTo(S, n) ==
    IF n = 0 THEN {<<>>}
    ELSE LET shorter == ListsUpTo(S, n - 1)
         IN  shorter \cup {Append(l, x) : l \in shorter, x \in S}

\* lines 60-76: jets_corrected
JetsCorrected(jets) ==
    [k \in 1..Len(jets) |->
        LET pt_raw == QMul(QSub(QOne, jets[k].rawFactor), jets[k].pt)
            mass_raw == QMul(QSub(QOne, jets[k].rawFactor), jets[k].mass)
        IN  [pt |-> QMul(pt_raw, jets[k].corr),
             mass |-> QMul(mass_raw, jets[k].corr),
             pt_raw |-> pt_raw, mass_raw |-> mass_raw,
             genJetAK8Idx |-> jets[k].genJetAK8Idx,
             sf |-> jets[k].sf, res |-> jets[k].res]]

\* line 145 with <= for <
WithinPtMinInclusive(deltaPt, pt_min) == ~QGreater(deltaPt, pt_min)

\* lines 145-146: deltaPt < pt_min
WithinPtMin(deltaPt, pt_min) == QGreater(pt_min, deltaPt)

\* lines 131-134: the index of the generator jet, None if -1 or not saved
MatchedGenjetsIdx(jet, Ngenjet) ==
    IF jet.genJetAK8Idx < Ngenjet /\ jet.genJetAK8Idx # -1
    THEN <<jet.genJetAK8Idx>> ELSE <<>>

\* lines 138-146: the pt of the matched generator jet after the two masks
MatchedGenjetPt(jet, genjets) ==
    LET gen_idx == MatchedGenjetsIdx(jet, Len(genjets))
        pt_min == QMul(QMul(<<3, 1>>, jet.res), jet.pt)
    IN  IF gen_idx = <<>> THEN <<>>
        ELSE LET deltaPt == QAbs(QSub(jet.pt, genjets[gen_idx[1] + 1]))
             IN  IF WithinPtMin(deltaPt, pt_min) THEN <<genjets[gen_idx[1] + 1]>> ELSE <<>>

\* lines 149-154: detSmear, None for a jet without match
DetSmear(jet, genjets) ==
    LET gen == MatchedGenjetPt(jet, genjets)
    IN  IF gen = <<>> THEN <<>>
        ELSE <<QAdd(QOne, QDiv(QMul(QSub(jet.sf, QOne), QSub(jet.pt, gen[1])), jet.pt))>>

\* lines 166-171: stochSmear
StochSmear(jet, rand_gaus) ==
    LET arg == QSub(QMul(jet.sf, jet.sf), QOne)
        sqrt_arg == IF QGreater(arg, <<0, 1>>) THEN arg ELSE <<0, 1>>
    IN  QAdd(QOne, QMul(rand_gaus, QSqrt(sqrt_arg)))

\* lines 172-177: jets_smeared
JetsSmeared(jets_corrected, genjets, rand_gaus) ==
    [k \in 1..Len(jets_corrected) |->
        LET jet == jets_corrected[k]
            detSmear == DetSmear(jet, genjets)
            isMatched == MatchedGenjetPt(jet, genjets) # <<>>
            smearFactor == IF isMatched THEN detSmear[1] ELSE StochSmear(jet, rand_gaus[k])
        IN  [jet EXCEPT !.pt = QMul(jet.pt, smearFactor),
                        !.mass = QMul(jet.mass, smearFactor)]]

\* lines 157-161: the seed dictionary of the chunk
SeedDict == [chunk |-> "chunk_file.root_0-1", seed |-> ChunkSeed]

\* jet_correction_correctionlib(events, Jet, typeJet, year, JECversion,
\* JERversion), lines 44-208
jet_correction_correctionlib(jets, genjets, JERversion) ==
    LET jets_corrected == JetsCorrected(jets)
        rand_gaus == [k \in 1..Len(jets) |-> RandomNormal(ChunkSeed, k)]
    IN  IF JERversion # <<>>
        THEN [jets |-> JetsSmeared(jets_corrected, genjets, rand_gaus),
              seed_dict |-> <<SeedDict>>]
        ELSE [jets |-> jets_corrected, seed_dict |-> <<>>]

InitJc ==
    /\ jc_jets \in ListsUpTo(JetValues, MaxJets)
    /\ jc_genjets \in GenJetLists
    /\ jc_JERversion \in {<<>>, <<"Summer22_22Sep2023_JRV1_MC">>}
    /\ jc_result = <<>>
    /\ pcJc = "start"

IdleJc ==
    /\ jc_jets = <<>>
    /\ jc_genjets = <<>>
    /\ jc_JERversion = <<>>
    /\ jc_result = <<>>
    /\ pcJc = "idle"

\* the call of jet_correction_correctionlib on the chunk
JetCorrectionCorrectionlib ==
    /\ pcJc = "start"
    /\ jc_result' = <<jet_correction_correctionlib(jc_jets, jc_genjets, jc_JERversion)>>
    /\ pcJc' = "returned"
    /\ UNCHANGED <<jc_jets, jc_genjets, jc_JERversion>>
    /\ UNCHANGED othersJc

NextJc ==
    \/ JetCorrectionCorrectionlib

\* pt and mass of jet k after the JEC: pt_raw * factor, mass_raw * factor
C20_PtJEC(k) == QMul(QMul(<<4, 5>>, jc_jets[k].pt), jc_jets[k].corr)
C20_MassJEC(k) == QMul(QMul(<<4, 5>>, jc_jets[k].mass), jc_jets[k].corr)

\* Jet k has a valid generator match.
C20_Valid(k) ==
    LET gen_idx == jc_jets[k].genJetAK8Idx
    IN  /\ gen_idx # -1
        /\ gen_idx < Len(jc_genjets)
        /\ QGreater(QMul(QMul(<<3, 1>>, jc_jets[k].res), C20_PtJEC(k)),
                    QAbs(QSub(C20_PtJEC(k), jc_genjets[gen_idx + 1])))

\* The smearing factor of C20 for jet k, g being the normal number of the jet.
C20_Factor(k, g) ==
    LET SF == jc_jets[k].sf
    IN  IF C20_Valid(k)
        THEN QAdd(QOne, QDiv(QMul(QSub(SF, QOne),
                                  QSub(C20_PtJEC(k), jc_genjets[jc_jets[k].genJetAK8Idx + 1])),
                             C20_PtJEC(k)))
        ELSE IF QGreater(QMul(SF, SF), QOne)
             THEN QAdd(QOne, QMul(g, QSqrt(QSub(QMul(SF, SF), QOne))))
             ELSE QOne

\* C20: with a JER version every jet has pt and mass of the JEC multiplied by
\* one factor: the scaling factor 1 + (SF - 1) * (pt - pt_gen) / pt iff its
\* generator index is not -1, is below the number of generator jets and
\* |pt - pt_gen| < 3 * resolution * pt, else 1 + g * sqrt(max(SF^2 - 1, 0)),
\* which is 1 for SF <= 1; the seed dictionary comes with the jets.  Without a
\* JER version the jets of the JEC are returned and no seed dictionary.
C20_HybridSmearing ==
    pcJc = "returned" =>
        LET out == jc_result[1]
            g == [k \in 1..Len(jc_jets) |-> RandomNormal(ChunkSeed, k)]
        IN  /\ Len(out.jets) = Len(jc_jets)
            /\ jc_JERversion # <<>> =>
                  /\ out.seed_dict # <<>>
                  /\ \A k \in 1..Len(jc_jets) :
                        /\ out.jets[k].pt = QMul(C20_PtJEC(k), C20_Factor(k, g[k]))
                        /\ out.jets[k].mass = QMul(C20_MassJEC(k), C20_Factor(k, g[k]))
                        /\ (~C20_Valid(k) /\ ~QGreater(jc_jets[k].sf, QOne)) =>
                              /\ out.jets[k].pt = C20_PtJEC(k)
                              /\ out.jets[k].mass = C20_MassJEC(k)
            /\ jc_JERversion = <<>> =>
                  /\ out.seed_dict = <<>>
                  /\ \A k \in 1..Len(jc_jets) :
                        /\ out.jets[k].pt = C20_PtJEC(k)
                        /\ out.jets[k].mass = C20_MassJEC(k)

\* C20 witness: with scale factor 5/4, a jet of pt 110 after the JEC matched
\* to the generator jet of pt 140 is scaled to 102.5, and a jet of pt 100
\* pointing to the generator jet of pt 130, exactly three resolutions away,
\* is smeared stochastically to 107.5.
C20_Witness ==
    /\ pcJc = "returned"
    /\ jc_JERversion # <<>>
    /\ jc_genjets = << <<140, 1>>, <<130, 1>> >>
    /\ jc_jets = <<JetOf(<<11, 10>>, <<5, 4>>, 0), JetOf(<<1, 1>>, <<5, 4>>, 1)>>
    /\ jc_result[1].jets[1].pt = <<205, 2>>
    /\ jc_result[1].jets[2].pt = <<215, 2>>

(***************************************************************************)
(* Specifications: one program runs, the others stay idle.                 *)
(***************************************************************************)
OnlyRatio == InitRatio /\ IdleRate /\ IdleFit /\ IdleDump /\ IdleAn /\ IdlePs /\
    IdleCfg /\ IdleDm /\ IdleRw /\ IdleH1 /\ IdleSv /\ IdleOw /\ IdleRn /\ IdleWa /\
    IdleCs /\ IdleMs /\ IdleJc
OnlyRate == InitRate /\ IdleRatio /\ IdleFit /\ IdleDump /\ IdleAn /\ IdlePs /\
    IdleCfg /\ IdleDm /\ IdleRw /\ IdleH1 /\ IdleSv /\ IdleOw /\ IdleRn /\ IdleWa /\
    IdleCs /\ IdleMs /\ IdleJc
OnlyFit == InitFit /\ IdleRatio /\ IdleRate /\ IdleDump /\ IdleAn /\ IdlePs /\
    IdleCfg /\ IdleDm /\ IdleRw /\ IdleH1 /\ IdleSv /\ IdleOw /\ IdleRn /\ IdleWa /\
    IdleCs /\ IdleMs /\ IdleJc
OnlyDump == InitDump /\ IdleRatio /\ IdleRate /\ IdleFit /\ IdleAn /\ IdlePs /\
    IdleCfg /\ IdleDm /\ IdleRw /\ IdleH1 /\ IdleSv /\ IdleOw /\ IdleRn /\ IdleWa /\
    IdleCs /\ IdleMs /\ IdleJc
OnlyAn == InitAn /\ IdleRatio /\ IdleRate /\ IdleFit /\ IdleDump /\ IdlePs /\
    IdleCfg /\ IdleDm /\ IdleRw /\ IdleH1 /\ IdleSv /\ IdleOw /\ IdleRn /\ IdleWa /\
    IdleCs /\ IdleMs /\ IdleJc
OnlyPs == InitPs /\ IdleRatio /\ IdleRate /\ IdleFit /\ IdleDump /\ IdleAn /\
    IdleCfg /\ IdleDm /\ IdleRw /\ IdleH1 /\ IdleSv /\ IdleOw /\ IdleRn /\ IdleWa /\
    IdleCs /\ IdleMs /\ IdleJc
OnlyCfg == InitCfg /\ IdleRatio /\ IdleRate /\ IdleFit /\ IdleDump /\ IdleAn /\
    IdlePs /\ IdleDm /\ IdleRw /\ IdleH1 /\ IdleSv /\ IdleOw /\ IdleRn /\ IdleWa /\
    IdleCs /\ IdleMs /\ IdleJc
OnlyDm == InitDm /\ IdleRatio /\ IdleRate /\ IdleFit /\ IdleDump /\ IdleAn /\ IdlePs /\
    IdleCfg /\ IdleRw /\ IdleH1 /\ IdleSv /\ IdleOw /\ IdleRn /\ IdleWa /\ IdleCs /\
    IdleMs /\ IdleJc
OnlyRw == InitRw /\ IdleRatio /\ IdleRate /\ IdleFit /\ IdleDump /\ IdleAn /\ IdlePs /\
    IdleCfg /\ IdleDm /\ IdleH1 /\ IdleSv /\ IdleOw /\ IdleRn /\ IdleWa /\ IdleCs /\
    IdleMs /\ IdleJc
OnlyH1 == InitH1 /\ IdleRatio /\ IdleRate /\ IdleFit /\ IdleDump /\ IdleAn /\ IdlePs /\
    IdleCfg /\ IdleDm /\ IdleRw /\ IdleSv /\ IdleOw /\ IdleRn /\ IdleWa /\ IdleCs /\
    IdleMs /\ IdleJc
OnlySv == InitSv /\ IdleRatio /\ IdleRate /\ IdleFit /\ IdleDump /\ IdleAn /\ IdlePs /\
    IdleCfg /\ IdleDm /\ IdleRw /\ IdleH1 /\ IdleOw /\ IdleRn /\ IdleWa /\ IdleCs /\
    IdleMs /\ IdleJc
OnlyOw == InitOw /\ IdleRatio /\ IdleRate /\ IdleFit /\ IdleDump /\ IdleAn /\ IdlePs /\
    IdleCfg /\ IdleDm /\ IdleRw /\ IdleH1 /\ IdleSv /\ IdleRn /\ IdleWa /\ IdleCs /\
    IdleMs /\ IdleJc
OnlyRn == InitRn /\ IdleRatio /\ IdleRate /\ IdleFit /\ IdleDump /\ IdleAn /\ IdlePs /\
    IdleCfg /\ IdleDm /\ IdleRw /\ IdleH1 /\ IdleSv /\ IdleOw /\ IdleWa /\ IdleCs /\
    IdleMs /\ IdleJc
OnlyWa == InitWa /\ IdleRatio /\ IdleRate /\ IdleFit /\ IdleDump /\ IdleAn /\ IdlePs /\
    IdleCfg /\ IdleDm /\ IdleRw /\ IdleH1 /\ IdleSv /\ IdleOw /\ IdleRn /\ IdleCs /\
    IdleMs /\ IdleJc
OnlyCs == InitCs /\ IdleRatio /\ IdleRate /\ IdleFit /\ IdleDump /\ IdleAn /\ IdlePs /\
    IdleCfg /\ IdleDm /\ IdleRw /\ IdleH1 /\ IdleSv /\ IdleOw /\ IdleRn /\ IdleWa /\
    IdleMs /\ IdleJc
OnlyMs == InitMs /\ IdleRatio /\ IdleRate /\ IdleFit /\ IdleDump /\ IdleAn /\ IdlePs /\
    IdleCfg /\ IdleDm /\ IdleRw /\ IdleH1 /\ IdleSv /\ IdleOw /\ IdleRn /\ IdleWa /\
    IdleCs /\ IdleJc
OnlyJc == InitJc /\ IdleRatio /\ IdleRate /\ IdleFit /\ IdleDump /\ IdleAn /\ IdlePs /\
    IdleCfg /\ IdleDm /\ IdleRw /\ IdleH1 /\ IdleSv /\ IdleOw /\ IdleRn /\ IdleWa /\
    IdleCs /\ IdleMs

SpecRatio == OnlyRatio /\ [][NextRatio]_vars
SpecRate == OnlyRate /\ [][NextRate]_vars
SpecFit == OnlyFit /\ [][NextFit]_vars
SpecDump == OnlyDump /\ [][NextDump]_vars
SpecAn == OnlyAn /\ [][NextAn]_vars
SpecPs == OnlyPs /\ [][NextPs]_vars
SpecCfg == OnlyCfg /\ [][NextCfg]_vars
SpecDm == OnlyDm /\ [][NextDm]_vars
SpecRw == OnlyRw /\ [][NextRw]_vars
SpecH1 == OnlyH1 /\ [][NextH1]_vars
SpecSv == OnlySv /\ [][NextSv]_vars
SpecOw == OnlyOw /\ [][NextOw]_vars
SpecRn == OnlyRn /\ [][NextRn]_vars
SpecWa == OnlyWa /\ [][NextWa]_vars
SpecCs == OnlyCs /\ [][NextCs]_vars
SpecMs == OnlyMs /\ [][NextMs]_vars
SpecJc == OnlyJc /\ [][NextJc]_vars

\* The scripts and the weight function side by side: any one of them runs.
SpecScripts ==
    /\ OnlyFit \/ OnlyDump \/ OnlyAn \/ OnlyPs
    /\ [][NextFit \/ NextDump \/ NextAn \/ NextPs]_vars

====
